---- MODULE Spec2Model ----
(***************************************************************************)
(* Multi-source paginated report aggregation: the browser-side merge       *)
(* engine (buffers, cursors, revealNextBatch, loadNextChunks, the form     *)
(* submit handler and the pagination clicks) and the server-side           *)
(* fetchReport (retry loop, empty-page loop, query cache).                 *)
(*                                                                         *)
(* Time.  JavaScript epoch values of today (1.7e12 ms) do not fit TLC's    *)
(* 32-bit integers, so every instant of the client model is a whole number *)
(* of seconds and toEpoch is stated in seconds (its JavaScript result      *)
(* divided by 1000).  The two magnitude tests of the code keep their       *)
(* meaning: 1e11 (raw number) and 1e12 (ms) become SEC_MS_CUTOFF and       *)
(* FALLBACK_MS_CUTOFF.                                                     *)
(***************************************************************************)
EXTENDS Integers, Sequences, FiniteSets, TLC

VARIABLES
    lastRecords,   \* script: let lastRecords = []      (revealed records)
    buffers,       \* script: const buffers = {in,out,camp,cdr}
    nextTokens,    \* script: let nextTokens = {in,out,camp,cdr}
    baseQuery,     \* script: let baseQuery = {}
    currentPage,   \* script: let currentPage = 1
    nav,           \* the #pageNav element written by renderCurrentPage
    tasks,         \* the running async handlers (submit / Next click)
    nHandlers      \* number of handler invocations so far (bounded)

clientVars == <<lastRecords, buffers, nextTokens, baseQuery, currentPage, nav,
                tasks, nHandlers>>

VARIABLES
    reportCache,   \* reportFetcher: const reportCache = new Map()
    calls,         \* the fetchReport calls in progress and their locals
    now,           \* Date.now(), in ms since the server started
    firstPages,    \* per cache key, what the last cursor-less fetch returned
    handedOut,     \* per report, the cursors fetchReport has returned
    nCalls,        \* number of fetchReport calls so far (bounded)
    nTicks,        \* number of clock steps so far (bounded)
    nFails         \* number of failed attempts so far (bounded)

fetchVars == <<reportCache, calls, now, firstPages, handedOut, nCalls, nTicks, nFails>>

VARIABLES
    inbound,       \* one inbound-queue row on its way from upstream to the table
    phone,         \* one number given to extractCountryFromPhoneNumber
    record,        \* one upstream record through the post-processing of
                   \* fetchReport and normalizeRow
    heap           \* the row arrays reachable from reportCache and from callers

rowVars == <<inbound, phone, record, heap>>

VARIABLES
    http           \* the request GET /api/reports/:type handled last

vars == <<clientVars, fetchVars, rowVars, http>>

-----------------------------------------------------------------------------
(* Bounds *)

\* PAGE_SIZE and SERVER_PAGE_SIZE are 500 in the program; the model scales
\* the batch quota down.
PAGE_SIZE == 2
MaxHandlers == 3
MaxTasks == 2
MaxCalls == 3
MaxSlots == 2
MaxTicks == 2
MaxFails == 3

-----------------------------------------------------------------------------
(* Values *)

SourceOrder == <<"in", "out", "camp", "cdr">>
SourceSet == {"in", "out", "camp", "cdr"}

Null == "null"          \* JavaScript null
NoKey == "none"         \* pickKey === null
NoEnd == -1             \* no fallback request issued / nothing to expect
EmptyId == 0            \* a missing or empty call_id ('' after normalizeRow)

SEC_MS_CUTOFF == 100000000        \* 1e11 / 1000
FALLBACK_MS_CUTOFF == 1000000000  \* 1_000_000_000_000 / 1000

\* The instants of the model, in seconds.
T0 == 1700000000

\* A 'Called Time' value.  kind "none": missing or '' ; "sec": a number n;
\* "ms": the number 1000*n; "iso": an ISO-8601 string of the instant n;
\* "bad": a string Date.parse does not understand.
NoTime == [kind |-> "none", n |-> 0]
Sec(n) == [kind |-> "sec", n |-> n]
Ms(n) == [kind |-> "ms", n |-> n]
Iso(n) == [kind |-> "iso", n |-> n]

Min2(a, b) == IF a < b THEN a ELSE b
Max2(a, b) == IF a > b THEN a ELSE b
CeilDiv(a, b) == (a + b - 1) \div b

-----------------------------------------------------------------------------
(* normalizeRow, toEpoch, dedupRecords, the sorts *)

TypeOf(source) ==
    CASE source = "camp" -> "Campaign"
      [] source = "cdr" -> "CDR"
      [] source = "out" -> "Outbound"
      [] OTHER -> "Inbound"

\* normalizeRow for the CDR kind turns a numeric timestamp into an ISO string:
\* ms = ts < 1e12 ? ts * 1000 : ts.
CdrCalledTime(ct) ==
    CASE ct.kind = "sec" -> Iso(ct.n)
      [] ct.kind = "ms" ->
            IF ct.n < FALLBACK_MS_CUTOFF THEN Iso(ct.n * 1000) ELSE Iso(ct.n)
      [] OTHER -> ct

normalizeRow(row, source) ==
    [Type |-> TypeOf(source),
     CallID |-> row.call_id,
     CalledTime |-> IF source = "cdr" THEN CdrCalledTime(row.ct) ELSE row.ct]

\* toEpoch, in seconds.
toEpoch(rec) ==
    LET v == rec.CalledTime IN
    CASE v.kind = "none" -> 0
      [] v.kind = "sec" -> v.n                      \* v < 1e11: v * 1000 ms
      [] v.kind = "ms" ->
            IF v.n = 0 THEN 0
            ELSE IF v.n < SEC_MS_CUTOFF THEN v.n * 1000 ELSE v.n
      [] v.kind = "iso" -> v.n
      [] OTHER -> 0                                 \* NaN -> 0

\* dedupRecords: the first record of every Call ID is kept; a record whose
\* Call ID is falsy gets a fresh Symbol() key and is always kept.
RECURSIVE DedupFrom(_, _)
DedupFrom(list, kept) ==
    IF list = <<>> THEN kept
    ELSE LET rec == Head(list) IN
         IF rec.CallID # EmptyId
            /\ \E i \in 1..Len(kept) : kept[i].CallID = rec.CallID
         THEN DedupFrom(Tail(list), kept)
         ELSE DedupFrom(Tail(list), Append(kept, rec))

\* A dedup that keeps the last record of every Call ID.
RECURSIVE DedupLast(_)
DedupLast(list) ==
    IF list = <<>> THEN <<>>
    ELSE LET rec == Head(list) IN
         IF rec.CallID # EmptyId
            /\ \E i \in 1..Len(Tail(list)) : Tail(list)[i].CallID = rec.CallID
         THEN DedupLast(Tail(list))
         ELSE <<rec>> \o DedupLast(Tail(list))

dedupRecords_last(list) == DedupLast(list)

dedupRecords(list) == DedupFrom(list, <<>>)

\* Array.prototype.sort((a, b) => toEpoch(b) - toEpoch(a)): stable, descending.
RECURSIVE InsertDesc(_, _)
InsertDesc(rec, sorted) ==
    IF sorted = <<>> THEN <<rec>>
    ELSE IF toEpoch(Head(sorted)) >= toEpoch(rec)
         THEN <<Head(sorted)>> \o InsertDesc(rec, Tail(sorted))
         ELSE <<rec>> \o sorted

RECURSIVE SortFrom(_, _)
SortFrom(list, acc) ==
    IF list = <<>> THEN acc
    ELSE SortFrom(Tail(list), InsertDesc(Head(list), acc))

SortDesc(list) == SortFrom(list, <<>>)

\* A reveal that leaves the list in the order of the pushes.
SortRevealed_none(list) == list

\* lastRecords.sort(...) at the end of revealNextBatch
SortRevealed(list) == SortDesc(list)

\* A push that leaves the buffer in the order of the pushes.
SortBuffer_none(list) == list

\* buffers[k].sort(...) after a push
SortBuffer(list) == SortDesc(list)

-----------------------------------------------------------------------------
(* revealNextBatch *)

\* A pick in which a later buffer wins a tie.
RECURSIVE PickFrom_later(_, _, _)
PickFrom_later(bufs, i, pick) ==
    IF i > Len(SourceOrder) THEN pick
    ELSE LET k == SourceOrder[i] IN
         IF bufs[k] = <<>> THEN PickFrom_later(bufs, i + 1, pick)
         ELSE IF pick = NoKey \/ toEpoch(Head(bufs[k])) >= toEpoch(Head(bufs[pick]))
              THEN PickFrom_later(bufs, i + 1, k)
              ELSE PickFrom_later(bufs, i + 1, pick)

\* The forEach over ['in','out','camp','cdr']: a later buffer replaces the
\* pick only when its head is strictly newer.
RECURSIVE PickFrom(_, _, _)
PickFrom(bufs, i, pick) ==
    IF i > Len(SourceOrder) THEN pick
    ELSE LET k == SourceOrder[i] IN
         IF bufs[k] = <<>> THEN PickFrom(bufs, i + 1, pick)
         ELSE IF pick = NoKey \/ toEpoch(Head(bufs[k])) > toEpoch(Head(bufs[pick]))
              THEN PickFrom(bufs, i + 1, k)
              ELSE PickFrom(bufs, i + 1, pick)

PickKey(bufs) == PickFrom(bufs, 1, NoKey)

\* A push without the dedupRecords call.
PushRevealed_nodedup(last, rec) == Append(last, rec)

\* lastRecords.push(buffers[pickKey].shift()); lastRecords = dedupRecords(lastRecords)
PushRevealed(last, rec) == dedupRecords(Append(last, rec))

\* A loop that gives up at the first record dedupRecords drops.
RECURSIVE RevealLoop_stop(_, _, _)
RevealLoop_stop(last, bufs, startLen) ==
    IF Len(last) - startLen >= PAGE_SIZE THEN [last |-> last, bufs |-> bufs]
    ELSE LET k == PickKey(bufs) IN
         IF k = NoKey THEN [last |-> last, bufs |-> bufs]
         ELSE LET pushed == PushRevealed(last, Head(bufs[k]))
                  rest == [bufs EXCEPT ![k] = Tail(@)]
              IN IF Len(pushed) = Len(last)
                 THEN [last |-> pushed, bufs |-> rest]
                 ELSE RevealLoop_stop(pushed, rest, startLen)

\* while (lastRecords.length - startLen < PAGE_SIZE) { pick; push; dedup }
RECURSIVE RevealLoop(_, _, _)
RevealLoop(last, bufs, startLen) ==
    IF Len(last) - startLen >= PAGE_SIZE THEN [last |-> last, bufs |-> bufs]
    ELSE LET k == PickKey(bufs) IN
         IF k = NoKey THEN [last |-> last, bufs |-> bufs]
         ELSE RevealLoop(PushRevealed(last, Head(bufs[k])),
                         [bufs EXCEPT ![k] = Tail(@)], startLen)

\* The buffers after n passes of the loop: lastRecords.push(buffers[pickKey].shift())
RECURSIVE AfterPicks(_, _)
AfterPicks(bufs, n) ==
    IF n = 0 THEN bufs
    ELSE LET k == PickKey(bufs) IN
         IF k = NoKey THEN bufs
         ELSE AfterPicks([bufs EXCEPT ![k] = Tail(@)], n - 1)

revealNextBatch(last, bufs) ==
    LET r == RevealLoop(last, bufs, Len(last)) IN
    [last |-> SortRevealed(r.last), bufs |-> r.bufs]

-----------------------------------------------------------------------------
(* Upstream answers seen by the browser.  A response of GET /api/reports/:type
   is {data: rows, next: cursor|null}, or an error after the server's retries
   are used up.  The rows of a response are drawn from a small set per source. *)

Row(id, ct) == [call_id |-> id, ct |-> ct]

RowsOf(s) ==
    CASE s = "in" -> {<<Row(2, Sec(T0 + 10)), Row(1, Sec(T0 + 30))>>,
                      <<Row(1, Sec(T0 + 30))>>}
      [] s = "out" -> {<<>>, <<Row(4, Sec(T0 + 20))>>}
      [] s = "camp" -> {<<>>, <<Row(EmptyId, Iso(T0 + 20)), Row(EmptyId, Iso(T0 + 20))>>}
      [] OTHER -> {<<Row(1, Sec(T0 + 30))>>, <<Row(3, NoTime), Row(5, Ms(T0 + 40))>>}

TokensOf(s) == IF s = "in" THEN {Null, "k1"} ELSE {Null}

Responses(s) == {[rows |-> r, next |-> n] : r \in RowsOf(s), n \in TokensOf(s)}

\* The query windows a user may submit: start and end, in seconds.
Windows == {[start |-> T0, end |-> T0 + 100]}

RECURSIVE MapNormalize(_, _)
MapNormalize(rows, source) ==
    IF rows = <<>> THEN <<>>
    ELSE <<normalizeRow(Head(rows), source)>> \o MapNormalize(Tail(rows), source)

-----------------------------------------------------------------------------
(* Handlers in flight *)

TaskIds == 1..MaxTasks

NoRows == [s \in SourceSet |-> <<>>]
NoTokens == [s \in SourceSet |-> Null]

\* kind: which handler; pc: "idle" (slot never used), "await" (suspended in
\* Promise.all), "done" (ran to its end), "threw" (Promise.all rejected);
\* stage: which requests it issued last; pending: requests not yet answered;
\* got / gotNext: answers kept by Promise.all until all have arrived.
\* The remaining fields record what the round did: failed (a request of the
\* round failed), okRows (a request of the round was answered with rows),
\* revealed (revealNextBatch ran), popped (records it shifted out of the
\* buffers), added (growth of lastRecords), startNull (all cursors null when
\* loadNextChunks was called), fbEnd (the end of the fallback window
\* requested, in seconds, NoEnd when none was), fbOldest (smallest toEpoch
\* among the revealed records when the fallback was decided, NoEnd when
\* nothing was revealed or some cursor was left), born (the handler is the
\* born-th one the user started), from (the buffers as revealNextBatch found
\* them), last (the answer its latest .then handler of a cursor request took:
\* n counts these answers).
IdleTask ==
    [kind |-> "none", pc |-> "idle", stage |-> "none", pending |-> {},
     got |-> NoRows, gotNext |-> NoTokens,
     failed |-> FALSE, okRows |-> FALSE, revealed |-> FALSE,
     popped |-> 0, added |-> 0,
     startNull |-> FALSE, fbEnd |-> NoEnd, fbOldest |-> NoEnd, born |-> 0,
     from |-> NoRows,
     last |-> [n |-> 0, source |-> "none", rows |-> <<>>, next |-> Null]]

SlotFree(t) == tasks[t].pc # "await" /\ tasks[t].pending = {}

\* A new handler takes the lowest free slot.
IsFreeSlot(t) == SlotFree(t) /\ \A u \in TaskIds : u < t => ~SlotFree(u)

Finished(tk, how, did) ==
    [tk EXCEPT !.pc = how, !.got = NoRows, !.gotNext = NoTokens, !.revealed = did]

RECURSIVE TotalLen(_, _)
TotalLen(bufs, i) ==
    IF i > Len(SourceOrder) THEN 0
    ELSE Len(bufs[SourceOrder[i]]) + TotalLen(bufs, i + 1)

\* The handler ran revealNextBatch from (last0, bufs0) to r.
Revealed(tk, last0, bufs0, r) ==
    [Finished(tk, "done", TRUE) EXCEPT
        !.popped = TotalLen(bufs0, 1) - TotalLen(r.bufs, 1),
        !.added = Len(r.last) - Len(last0),
        !.from = bufs0]

-----------------------------------------------------------------------------
(* renderCurrentPage: clamps currentPage and rewrites the pagination links.
   No column filter is active, so currentFiltered is a copy of lastRecords. *)

TotalPages(last) == Max2(1, CeilDiv(Len(last), PAGE_SIZE))

\* A test that never finds the buffers empty.
BuffersEmpty_never(bufs) == FALSE

BuffersEmpty(bufs) == \A s \in SourceSet : bufs[s] = <<>>
\* A test that is content with one null cursor.
NoMoreTokens_some(toks) == \E s \in SourceSet : toks[s] = Null

NoMoreTokens(toks) == \A s \in SourceSet : toks[s] = Null

renderCurrentPage(last, bufs, toks, page) ==
    LET total == TotalPages(last)
        p == Max2(1, Min2(page, total))
        mayHaveMore == ~(BuffersEmpty(bufs) /\ NoMoreTokens(toks))
    IN [page |-> p,
        nav |-> [shown |-> TRUE,
                 prev |-> p # 1,
                 next |-> ~(p = total /\ ~mayHaveMore)]]

-----------------------------------------------------------------------------
(* loadNextChunks after its cursor requests: the time-window fallback and
   the reveal *)

\* lastRecords.reduce((min, r) => ..., null): the smallest toEpoch, NoEnd
\* standing for null.
RECURSIVE OldestFrom(_, _)
OldestFrom(list, min) ==
    IF list = <<>> THEN min
    ELSE LET ts == toEpoch(Head(list)) IN
         OldestFrom(Tail(list), IF min = NoEnd \/ ts < min THEN ts ELSE min)

Oldest(last) == OldestFrom(last, NoEnd)

\* if (oldest): null and 0 are falsy
OldestTruthy(oldest) == oldest # NoEnd /\ oldest # 0

\* oldestMs = oldest < 1e12 ? oldest * 1000 : oldest; end = oldestMs - 1000,
\* which the server floors to seconds.
FallbackEnd(oldest) ==
    (IF oldest < FALLBACK_MS_CUTOFF THEN oldest * 1000 ELSE oldest) - 1

\* revealNextBatch(); currentFiltered = [...lastRecords]; renderCurrentPage()
FinishLoad(t, tk, bufs, toks, page) ==
    LET r == revealNextBatch(lastRecords, bufs)
        rd == renderCurrentPage(r.last, r.bufs, toks, page)
    IN /\ lastRecords' = r.last
       /\ buffers' = r.bufs
       /\ nextTokens' = toks
       /\ currentPage' = rd.page
       /\ nav' = rd.nav
       /\ tasks' = [tasks EXCEPT ![t] = Revealed(tk, lastRecords, bufs, r)]

\* if (noMoreTokens) { oldest = ...; if (oldest) { four requests, await } }
AfterCursor(t, tk, bufs, toks, page) ==
    LET oldest == Oldest(lastRecords)
        tk1 == [tk EXCEPT !.fbOldest = IF NoMoreTokens(toks) THEN oldest ELSE NoEnd]
    IN IF NoMoreTokens(toks) /\ OldestTruthy(oldest)
       THEN /\ tasks' = [tasks EXCEPT ![t] =
                           [tk1 EXCEPT !.pc = "await", !.stage = "fallback",
                                       !.pending = SourceSet,
                                       !.fbEnd = FallbackEnd(oldest)]]
            /\ buffers' = bufs
            /\ nextTokens' = toks
            /\ currentPage' = page
            /\ UNCHANGED <<lastRecords, nav>>
       ELSE FinishLoad(t, tk1, bufs, toks, page)

-----------------------------------------------------------------------------
(* Actions of the browser *)

ClientInit ==
    /\ lastRecords = <<>>
    /\ buffers = NoRows
    /\ nextTokens = NoTokens
    /\ baseQuery = [start |-> NoEnd, end |-> NoEnd]
    /\ currentPage = 1
    /\ nav = [shown |-> FALSE, prev |-> FALSE, next |-> FALSE]
    /\ tasks = [t \in TaskIds |-> IdleTask]
    /\ nHandlers = 0

\* form submit, up to its await: baseQuery is set and four first-page
\* requests are issued.
Submit(t, w) ==
    /\ IsFreeSlot(t)
    /\ nHandlers' = nHandlers + 1
    /\ baseQuery' = w
    /\ tasks' = [tasks EXCEPT ![t] =
                   [IdleTask EXCEPT !.kind = "submit", !.pc = "await",
                                    !.born = nHandlers + 1,
                                    !.stage = "first", !.pending = SourceSet]]
    /\ UNCHANGED <<lastRecords, buffers, nextTokens, currentPage, nav>>

\* The continuation of the submit handler once all four answers are in.
SubmitContinue(t, tk) ==
    LET bufs == [s \in SourceSet |-> MapNormalize(tk.got[s], s)]
        r == revealNextBatch(<<>>, bufs)
        rd == renderCurrentPage(r.last, r.bufs, tk.gotNext, 1)
    IN /\ nextTokens' = tk.gotNext
       /\ buffers' = r.bufs
       /\ lastRecords' = r.last
       /\ currentPage' = rd.page
       /\ nav' = rd.nav
       /\ tasks' = [tasks EXCEPT ![t] = Revealed(tk, <<>>, bufs, r)]

\* A Promise.race: settled with the first answer.
AllSettled_any(tk) == TRUE

\* await Promise.all([...]): resumed when the last answer is in.
AllSettled(tk) == tk.pending = {}

\* A first-page answer arrives.
FirstOk(t, s, resp) ==
    /\ tasks[t].stage = "first"
    /\ s \in tasks[t].pending
    /\ LET tk == [tasks[t] EXCEPT
                    !.pending = @ \ {s},
                    !.got[s] = IF tasks[t].pc = "await" THEN resp.rows ELSE <<>>,
                    !.gotNext[s] = IF tasks[t].pc = "await" THEN resp.next ELSE Null,
                    !.okRows = @ \/ resp.rows # <<>>]
       IN IF tk.pc = "await" /\ AllSettled(tk)
          THEN SubmitContinue(t, tk)
          ELSE /\ tasks' = [tasks EXCEPT ![t] = tk]
               /\ UNCHANGED <<lastRecords, buffers, nextTokens, currentPage, nav>>
    /\ UNCHANGED <<baseQuery, nHandlers>>

\* The .then handler of a cursor request of loadNextChunks.
CursorOk(t, s, resp) ==
    /\ tasks[t].stage = "cursor"
    /\ s \in tasks[t].pending
    /\ LET tk == [tasks[t] EXCEPT
                    !.pending = @ \ {s},
                    !.okRows = @ \/ resp.rows # <<>>,
                    !.last = [n |-> @.n + 1, source |-> s, rows |-> resp.rows,
                              next |-> resp.next]]
           toks == [nextTokens EXCEPT ![s] = resp.next]
           bufs == [buffers EXCEPT
                      ![s] = SortBuffer(@ \o MapNormalize(resp.rows, s))]
       IN IF tk.pc = "await" /\ AllSettled(tk)
          THEN AfterCursor(t, tk, bufs, toks, currentPage)
          ELSE /\ tasks' = [tasks EXCEPT ![t] = tk]
               /\ buffers' = bufs
               /\ nextTokens' = toks
               /\ UNCHANGED <<lastRecords, currentPage, nav>>
    /\ UNCHANGED <<baseQuery, nHandlers>>

\* The rows of the four fallback answers are pushed and the buffers sorted.
RECURSIVE PushFallback(_, _, _)
PushFallback(bufs, got, i) ==
    IF i > Len(SourceOrder) THEN bufs
    ELSE LET s == SourceOrder[i] IN
         IF got[s] = <<>> THEN PushFallback(bufs, got, i + 1)
         ELSE PushFallback(
                [bufs EXCEPT ![s] = SortBuffer(@ \o MapNormalize(got[s], s))],
                got, i + 1)

\* An answer to a fallback-window request arrives.
FallbackOk(t, s, resp) ==
    /\ tasks[t].stage = "fallback"
    /\ s \in tasks[t].pending
    /\ LET tk == [tasks[t] EXCEPT
                    !.pending = @ \ {s},
                    !.got[s] = IF tasks[t].pc = "await" THEN resp.rows ELSE <<>>,
                    !.okRows = @ \/ resp.rows # <<>>]
       IN IF tk.pc = "await" /\ AllSettled(tk)
          THEN FinishLoad(t, tk, PushFallback(buffers, tk.got, 1), nextTokens,
                          currentPage)
          ELSE /\ tasks' = [tasks EXCEPT ![t] = tk]
               /\ UNCHANGED <<lastRecords, buffers, nextTokens, currentPage, nav>>
    /\ UNCHANGED <<baseQuery, nHandlers>>

\* A request fails (the server answered 500 after its retries): Promise.all
\* rejects at once; the submit handler shows the error, loadNextChunks throws.
RespondFail(t, s) ==
    /\ s \in tasks[t].pending
    /\ tasks' = [tasks EXCEPT ![t] =
                   [Finished(tasks[t],
                             IF tasks[t].pc = "await" THEN "threw" ELSE tasks[t].pc,
                             tasks[t].revealed)
                      EXCEPT !.pending = @ \ {s}, !.failed = TRUE]]
    /\ UNCHANGED <<lastRecords, buffers, nextTokens, baseQuery, currentPage, nav,
                   nHandlers>>

\* Click on Next.
NextClick(t) ==
    /\ nav.shown /\ nav.next
    /\ nHandlers' = nHandlers + 1
    /\ UNCHANGED baseQuery
    /\ IF currentPage # TotalPages(lastRecords)
       THEN \* not on the last page: currentPage++; renderCurrentPage()
            LET rd == renderCurrentPage(lastRecords, buffers, nextTokens,
                                        currentPage + 1)
            IN /\ t = 1
               /\ currentPage' = rd.page
               /\ nav' = rd.nav
               /\ UNCHANGED <<lastRecords, buffers, nextTokens, tasks>>
       ELSE \* currentPage++; await loadNextChunks()
            LET fetch == {s \in SourceSet : nextTokens[s] # Null}
                tk == [IdleTask EXCEPT !.kind = "next", !.startNull = (fetch = {}),
                                       !.born = nHandlers + 1]
            IN /\ IsFreeSlot(t)
               /\ IF fetch # {}
                  THEN /\ tasks' = [tasks EXCEPT ![t] =
                                      [tk EXCEPT !.pc = "await", !.stage = "cursor",
                                                 !.pending = fetch]]
                       /\ currentPage' = currentPage + 1
                       /\ UNCHANGED <<lastRecords, buffers, nextTokens, nav>>
                  ELSE AfterCursor(t, tk, buffers, nextTokens, currentPage + 1)

\* Click on Previous.
PrevClick ==
    /\ nav.shown /\ nav.prev
    /\ nHandlers' = nHandlers + 1
    /\ LET rd == renderCurrentPage(lastRecords, buffers, nextTokens,
                                   currentPage - 1)
       IN /\ currentPage' = rd.page
          /\ nav' = rd.nav
    /\ UNCHANGED <<lastRecords, buffers, nextTokens, baseQuery, tasks>>

\* Nothing is in flight.
Quiet == \A t \in TaskIds : SlotFree(t)

\* The user acts when the page is at rest.
UserSubmit(t, w) == Quiet /\ nHandlers < MaxHandlers /\ Submit(t, w)
UserNext(t) == Quiet /\ nHandlers < MaxHandlers /\ NextClick(t)
UserPrev == Quiet /\ nHandlers < MaxHandlers /\ PrevClick

ClientNext ==
    \/ \E t \in TaskIds, w \in Windows : UserSubmit(t, w) /\ UNCHANGED <<fetchVars, rowVars, http>>
    \/ \E t \in TaskIds, s \in SourceSet : \E resp \in Responses(s) :
          FirstOk(t, s, resp) /\ UNCHANGED <<fetchVars, rowVars, http>>
    \/ \E t \in TaskIds, s \in SourceSet : \E resp \in Responses(s) :
          CursorOk(t, s, resp) /\ UNCHANGED <<fetchVars, rowVars, http>>
    \/ \E t \in TaskIds, s \in SourceSet : \E resp \in Responses(s) :
          FallbackOk(t, s, resp) /\ UNCHANGED <<fetchVars, rowVars, http>>
    \/ \E t \in TaskIds, s \in SourceSet : RespondFail(t, s) /\ UNCHANGED <<fetchVars, rowVars, http>>
    \/ \E t \in TaskIds : UserNext(t) /\ UNCHANGED <<fetchVars, rowVars, http>>
    \/ UserPrev /\ UNCHANGED <<fetchVars, rowVars, http>>

-----------------------------------------------------------------------------
(* The browser when the user does not wait for the page to come to rest:
   the listeners run whenever an event arrives, also while earlier handlers
   are suspended in their await.  The answers are drawn from a smaller set. *)

MaxRacing == 4

RacingResponses(s) ==
    IF s = "in"
    THEN {[rows |-> <<Row(1, Sec(T0 + 30))>>, next |-> n] : n \in {Null, "k1"}}
    ELSE IF s = "camp"
    THEN {[rows |-> <<Row(EmptyId, Iso(T0 + 20)), Row(EmptyId, Iso(T0 + 20))>>,
           next |-> Null]}
    ELSE {[rows |-> <<>>, next |-> Null]}

RacingClientNext ==
    \/ \E t \in TaskIds, w \in Windows :
          /\ nHandlers < MaxRacing
          /\ Submit(t, w) /\ UNCHANGED <<fetchVars, rowVars, http>>
    \/ \E t \in TaskIds, s \in SourceSet : \E resp \in RacingResponses(s) :
          FirstOk(t, s, resp) /\ UNCHANGED <<fetchVars, rowVars, http>>
    \/ \E t \in TaskIds, s \in SourceSet : \E resp \in RacingResponses(s) :
          CursorOk(t, s, resp) /\ UNCHANGED <<fetchVars, rowVars, http>>
    \/ \E t \in TaskIds, s \in SourceSet : \E resp \in RacingResponses(s) :
          FallbackOk(t, s, resp) /\ UNCHANGED <<fetchVars, rowVars, http>>
    \/ \E t \in TaskIds, s \in SourceSet : RespondFail(t, s) /\ UNCHANGED <<fetchVars, rowVars, http>>
    \/ \E t \in TaskIds :
          /\ nHandlers < MaxRacing
          /\ NextClick(t) /\ UNCHANGED <<fetchVars, rowVars, http>>
    \/ /\ nHandlers < MaxRacing
       /\ PrevClick /\ UNCHANGED <<fetchVars, rowVars, http>>

-----------------------------------------------------------------------------
(* reportFetcher.js: the upstream endpoints as fetchReport sees them *)

MAX_RETRIES == 3
CACHE_TTL == 300000     \* ms('5m')
FIRST_DELAY == 1000     \* delay = 1_000

None == "undefined"     \* JavaScript undefined (startKey, params.start_key)
NoEntry == [expires |-> 0, data |-> <<>>, at |-> NoEnd, cursor |-> None,
            next |-> Null]

\* The report kinds called in the model (keys of ENDPOINTS).
FetchReports == {"queueCalls", "cdrs"}

\* What upstream holds for the one tenant and window of the model: per
\* report its pages in order; page i+1 is reached with the cursor page i
\* returned.  Inbound rows come one per agent leg, the legs of call 1 being
\* spread over pages 1 and 3; pages may be empty mid-stream.
UpstreamPages(report) ==
    IF report = "queueCalls"
    THEN <<[rows |-> <<Row(1, Sec(T0 + 30)), Row(1, Sec(T0 + 31)),
                       Row(2, Sec(T0 + 20))>>, next |-> "k2"],
           [rows |-> <<>>, next |-> "k3"],
           [rows |-> <<Row(3, Sec(T0 + 10)), Row(1, Sec(T0 + 5))>>, next |-> Null]>>
    ELSE <<[rows |-> <<>>, next |-> "k2"],
           [rows |-> <<Row(4, Sec(T0 + 25)), Row(5, Sec(T0 + 15))>>, next |-> Null]>>

PageIndex(cursor) ==
    CASE cursor = "k2" -> 2
      [] cursor = "k3" -> 3
      [] OTHER -> 1

UpstreamPage(report, cursor) == UpstreamPages(report)[PageIndex(cursor)]

\* The cursors a caller may pass: none, or one upstream has for the report.
CursorsOf(report) ==
    {None} \cup ({UpstreamPages(report)[i].next : i \in 1..Len(UpstreamPages(report))}
                   \ {Null})

\* The limit the HTTP handler passes as maxRows, scaled down with the pages.
MaxRowsChoices == {2}

-----------------------------------------------------------------------------
(* fetchReport *)

\* makeCacheKey: report|tenant|startDate|endDate.  The model has one tenant
\* and one window, so the key is the report; start_key and maxRows are not
\* part of it.
makeCacheKey(report, cursor, maxRows) == report

\* A lookup that still serves the entry at the instant it expires.
CacheFresh_le(entry, t) == entry # NoEntry /\ t <= entry.expires

\* cached && Date.now() < cached.expires
CacheFresh(entry, t) == entry # NoEntry /\ t < entry.expires

\* expires: Date.now() + CACHE_TTL
Expires(t) == t + CACHE_TTL

\* records.slice(0, remaining)
Take(rows, n) == IF n >= Len(rows) THEN rows ELSE SubSeq(rows, 1, n)

\* out.push(...records.slice(0, remaining)) when remaining > 0, with
\* remaining = maxRows - out.length
PushRows(out, records, maxRows) ==
    LET remaining == maxRows - Len(out) IN
    IF remaining > 0 THEN out \o Take(records, remaining) ELSE out

\* ...(startKey && { start_key: startKey }) after ...params
RequestCursor(cursor, startKey) == IF startKey # None THEN startKey ELSE cursor

\* A loop that returns after its first page.
LoopEnds_first(out, next) == TRUE

\* if (out.length > 0) break; if (nextStartKey === null) break;
LoopEnds(out, next) == Len(out) > 0 \/ next = Null

\* A back-off that does not grow.
NextDelay_same(delay) == delay

\* delay *= 2
NextDelay(delay) == delay * 2

\* A grouping that keeps the last row of every call_id.
RECURSIVE FirstRows_last(_, _)
FirstRows_last(out, kept) ==
    IF out = <<>> THEN kept
    ELSE LET rec == Head(out) IN
         IF rec.call_id # EmptyId
            /\ \E i \in 1..Len(Tail(out)) : Tail(out)[i].call_id = rec.call_id
         THEN FirstRows_last(Tail(out), kept)
         ELSE FirstRows_last(Tail(out), Append(kept, rec))

\* For queueCalls: the first row of every call_id is kept, rows without a
\* call_id are all kept.
RECURSIVE FirstRows(_, _)
FirstRows(out, kept) ==
    IF out = <<>> THEN kept
    ELSE LET rec == Head(out) IN
         IF rec.call_id # EmptyId
            /\ \E i \in 1..Len(kept) : kept[i].call_id = rec.call_id
         THEN FirstRows(Tail(out), kept)
         ELSE FirstRows(Tail(out), Append(kept, rec))

PostProcess(report, out) ==
    IF report = "queueCalls" THEN FirstRows(out, <<>>) ELSE out

\* What a call returns when no attempt fails: the while loop run from the
\* request cursor req with the rows out accumulated so far.
RECURSIVE Walk(_, _, _, _)
Walk(report, req, out, maxRows) ==
    LET page == UpstreamPage(report, req)
        out1 == PushRows(out, page.rows, maxRows)
    IN IF Len(out1) > 0 \/ page.next = Null
       THEN [rows |-> PostProcess(report, out1), next |-> page.next]
       ELSE Walk(report, page.next, out1, maxRows)

NoFailResult(report, cursor, maxRows) == Walk(report, cursor, <<>>, maxRows)

CallIds == 1..MaxSlots

\* The locals of a fetchReport call: report, cursor (params.start_key),
\* maxRows, attempt, delay, out, startKey, nextStartKey; pc is where it
\* stands ("idle": no call; "request": before getPortalToken / axios.get;
\* "backoff": in setTimeout(delay); "done": returned; "failed": threw).
\* result is what it returned, hit telling a cached array from {rows, next}.
\* The other fields record its history: waits (the delays waited), fails
\* (attempts that failed), nReq (upstream requests answered), firstReq (the
\* cursor of its first upstream request), t0 (time of its cache lookup),
\* sawAt (creation time of the entry the lookup found, NoEnd when none),
\* sawNext (the cursor returned by the fetch that created that entry),
\* reissue (the key was fetched without a cursor less than CACHE_TTL before
\* t0) and expect (the rows of that fetch), passedBack (the cursor is one an earlier
\* call for the report returned), advFail (an attempt failed after the loop
\* had moved startKey past an empty page), pageRows (the records of the last
\* page read), delivered (the HTTP handler has sent the result).
NoResult == [rows |-> <<>>, next |-> Null, hit |-> FALSE]

IdleCall ==
    [report |-> "none", cursor |-> None, maxRows |-> 0, pc |-> "idle",
     attempt |-> 0, delay |-> 0, out |-> <<>>, startKey |-> None,
     nextStartKey |-> Null, result |-> NoResult,
     waits |-> <<>>, fails |-> 0, nReq |-> 0, firstReq |-> "no request",
     t0 |-> 0, sawAt |-> NoEnd, sawNext |-> Null, reissue |-> FALSE, expect |-> <<>>,
     passedBack |-> FALSE, advFail |-> FALSE,
     pageRows |-> <<>>, delivered |-> FALSE]

FetchInit ==
    /\ reportCache = [k \in FetchReports |-> NoEntry]
    /\ calls = [c \in CallIds |-> IdleCall]
    /\ now = 0
    /\ firstPages = [k \in FetchReports |-> [rows |-> <<>>, at |-> NoEnd]]
    /\ handedOut = [k \in FetchReports |-> {}]
    /\ nCalls = 0
    /\ nTicks = 0
    /\ nFails = 0

\* fetchReport is called: the cache lookup, and the locals of the retry loop.
Call(c, report, cursor, maxRows) ==
    /\ nCalls < MaxCalls
    /\ calls[c].pc \in {"idle", "done", "failed"}
    /\ \A d \in CallIds : d < c => calls[d].pc \notin {"idle", "done", "failed"}
    /\ nCalls' = nCalls + 1
    /\ LET key == makeCacheKey(report, cursor, maxRows)
           cached == reportCache[key]
           fp == firstPages[key]
           base == [IdleCall EXCEPT
                      !.report = report, !.cursor = cursor, !.maxRows = maxRows,
                      !.t0 = now, !.sawAt = cached.at,
                      !.sawNext = cached.next,
                      !.passedBack = cursor \in handedOut[report],
                      !.reissue = fp.at # NoEnd /\ now < fp.at + CACHE_TTL,
                      !.expect = fp.rows]
       IN calls' = [calls EXCEPT ![c] =
            IF CacheFresh(cached, now)
            THEN [base EXCEPT !.pc = "done",
                              !.result = [rows |-> cached.data, next |-> Null,
                                          hit |-> TRUE]]
            ELSE [base EXCEPT !.pc = "request", !.delay = FIRST_DELAY]]
    /\ UNCHANGED <<reportCache, now, firstPages, handedOut, nTicks, nFails>>
    /\ UNCHANGED <<clientVars, rowVars>>

\* The loop has ended without a throw: post-processing, reportCache.set and
\* the return.
Return(c, cl) ==
    LET rows == PostProcess(cl.report, cl.out)
        key == makeCacheKey(cl.report, cl.cursor, cl.maxRows)
    IN /\ reportCache' = [reportCache EXCEPT ![key] =
                            [expires |-> Expires(now), data |-> rows,
                             at |-> now, cursor |-> cl.cursor,
                             next |-> cl.nextStartKey]]
       /\ calls' = [calls EXCEPT ![c] =
                      [cl EXCEPT !.pc = "done",
                                 !.result = [rows |-> rows, next |-> cl.nextStartKey,
                                             hit |-> FALSE]]]
       /\ firstPages' = IF cl.cursor = None
                        THEN [firstPages EXCEPT ![key] = [rows |-> rows, at |-> now]]
                        ELSE firstPages
       /\ handedOut' = IF cl.nextStartKey # Null
                       THEN [handedOut EXCEPT ![cl.report] = @ \cup {cl.nextStartKey}]
                       ELSE handedOut

\* One pass of the while loop: token, GET, the page is read.
Respond(c) ==
    /\ calls[c].pc = "request"
    /\ LET cl == calls[c]
           req == RequestCursor(cl.cursor, cl.startKey)
           page == UpstreamPage(cl.report, req)
           out == PushRows(cl.out, page.rows, cl.maxRows)
           cl1 == [cl EXCEPT !.nextStartKey = page.next, !.out = out,
                             !.pageRows = page.rows,
                             !.nReq = @ + 1,
                             !.firstReq = IF cl.nReq = 0 THEN req ELSE @]
       IN IF LoopEnds(out, page.next)
          THEN Return(c, cl1)
          ELSE /\ calls' = [calls EXCEPT ![c] = [cl1 EXCEPT !.startKey = page.next]]
               /\ UNCHANGED <<reportCache, firstPages, handedOut>>
    /\ UNCHANGED <<now, nCalls, nTicks, nFails>>
    /\ UNCHANGED <<clientVars, rowVars, http>>

\* A catch block reached after the failed attempt had pushed a row.
AfterCatch_pushed(cl) ==
    [cl EXCEPT !.pc = "backoff", !.fails = @ + 1,
               !.waits = Append(@, cl.delay),
               !.advFail = @ \/ cl.startKey # None,
               !.out = PushRows(@, UpstreamPage(cl.report,
                                   RequestCursor(cl.cursor, cl.startKey)).rows, 1)]

\* The catch block when attempt < MAX_RETRIES - 1: nothing but the timer;
\* out, startKey and nextStartKey are declared outside the retry loop and
\* stay as the failed attempt left them.
AfterCatch(cl) ==
    [cl EXCEPT !.pc = "backoff", !.fails = @ + 1,
               !.waits = Append(@, cl.delay),
               !.advFail = @ \/ cl.startKey # None]

\* A catch block that drops the entry of the key when the last attempt fails.
AttemptFail_evict(c) ==
    /\ calls[c].pc = "request"
    /\ nFails < MaxFails
    /\ nFails' = nFails + 1
    /\ calls' = [calls EXCEPT ![c] =
         IF calls[c].attempt = MAX_RETRIES - 1
         THEN [@ EXCEPT !.pc = "failed", !.fails = @ + 1]
         ELSE AfterCatch(@)]
    /\ reportCache' =
         IF calls[c].attempt = MAX_RETRIES - 1
         THEN [reportCache EXCEPT
                 ![makeCacheKey(calls[c].report, calls[c].cursor, calls[c].maxRows)]
                     = NoEntry]
         ELSE reportCache
    /\ UNCHANGED <<now, firstPages, handedOut, nCalls, nTicks>>
    /\ UNCHANGED <<clientVars, rowVars, http>>

\* getPortalToken or axios.get throws: the catch block.
AttemptFail(c) ==
    /\ calls[c].pc = "request"
    /\ nFails < MaxFails
    /\ nFails' = nFails + 1
    /\ calls' = [calls EXCEPT ![c] =
         IF calls[c].attempt = MAX_RETRIES - 1
         THEN [@ EXCEPT !.pc = "failed", !.fails = @ + 1]
         ELSE AfterCatch(@)]
    /\ UNCHANGED <<reportCache, now, firstPages, handedOut, nCalls, nTicks>>
    /\ UNCHANGED <<clientVars, rowVars, http>>

\* The timer of the catch block fires: attempt++, delay *= 2.
BackoffElapse(c) ==
    /\ calls[c].pc = "backoff"
    /\ now' = now + calls[c].delay
    /\ calls' = [calls EXCEPT ![c] =
                   [@ EXCEPT !.pc = "request", !.attempt = @ + 1,
                             !.delay = NextDelay(@)]]
    /\ UNCHANGED <<reportCache, firstPages, handedOut, nCalls, nTicks, nFails>>
    /\ UNCHANGED <<clientVars, rowVars, http>>

\* Time passes.  The clock of the model steps between calls; within a call
\* time passes in the timers of the catch block.
TickSteps == {1, CACHE_TTL - 1}

Tick(d) ==
    /\ nTicks < MaxTicks
    /\ \A c \in CallIds : calls[c].pc \in {"idle", "done", "failed"}
    /\ nTicks' = nTicks + 1
    /\ now' = now + d
    /\ UNCHANGED <<reportCache, calls, firstPages, handedOut, nCalls, nFails>>
    /\ UNCHANGED <<clientVars, rowVars, http>>

FetchNext ==
    \/ \E c \in CallIds, report \in FetchReports, maxRows \in MaxRowsChoices :
          \E cursor \in CursorsOf(report) :
              Call(c, report, cursor, maxRows) /\ UNCHANGED http
    \/ \E c \in CallIds : Respond(c)
    \/ \E c \in CallIds : AttemptFail(c)
    \/ \E c \in CallIds : BackoffElapse(c)
    \/ \E d \in TickSteps : Tick(d)

-----------------------------------------------------------------------------
(* The browser served by GET /api/reports/:type.  The inbound requests of
   the first-page and cursor rounds go through fetchReport('queueCalls');
   the other sources answer from fixed data, and upstream holds nothing
   older than the window for the fallback round. *)

\* rows = Array.isArray(result) ? result : result.rows;
\* nextToken = Array.isArray(result) ? null : result.next;
\* res.json({data: processedData, next: nextToken})
HandlerResponse(result) ==
    [rows |-> result.rows, next |-> IF result.hit THEN Null ELSE result.next]

OtherResponse(s) ==
    IF s = "cdr" THEN [rows |-> <<Row(4, Sec(T0 + 25))>>, next |-> Null]
    ELSE [rows |-> <<>>, next |-> Null]

NothingOlder == [rows |-> <<>>, next |-> Null]

\* The inbound request of handler t reaches the server: the route handler
\* calls fetchReport with the startKey of the request and its limit.
ServeRequest(t, maxRows) ==
    /\ tasks[t].pc = "await"
    /\ "in" \in tasks[t].pending
    /\ tasks[t].stage \in {"first", "cursor"}
    /\ calls[1].pc = "idle" \/ calls[1].delivered
    /\ Call(1, "queueCalls",
            IF tasks[t].stage = "cursor" THEN nextTokens["in"] ELSE None,
            maxRows)
    /\ UNCHANGED http

Send(c) ==
    /\ calls[c].pc = "done"
    /\ ~calls[c].delivered
    /\ calls' = [calls EXCEPT ![c].delivered = TRUE]
    /\ UNCHANGED <<reportCache, now, firstPages, handedOut, nCalls, nTicks, nFails>>
    /\ UNCHANGED <<rowVars, http>>

\* The route handler sends what fetchReport returned and the browser's
\* handler takes it.
AnswerFirst(t, c) == Send(c) /\ FirstOk(t, "in", HandlerResponse(calls[c].result))
AnswerCursor(t, c) == Send(c) /\ CursorOk(t, "in", HandlerResponse(calls[c].result))

ServedNext ==
    \/ \E t \in TaskIds, w \in Windows : UserSubmit(t, w) /\ UNCHANGED <<fetchVars, rowVars, http>>
    \/ \E t \in TaskIds : UserNext(t) /\ UNCHANGED <<fetchVars, rowVars, http>>
    \/ \E t \in TaskIds, maxRows \in MaxRowsChoices : ServeRequest(t, maxRows)
    \/ \E c \in CallIds : Respond(c)
    \/ \E t \in TaskIds, c \in CallIds : AnswerFirst(t, c)
    \/ \E t \in TaskIds, c \in CallIds : AnswerCursor(t, c)
    \/ \E t \in TaskIds, s \in SourceSet \ {"in"} :
          FirstOk(t, s, OtherResponse(s)) /\ UNCHANGED <<fetchVars, rowVars, http>>
    \/ \E t \in TaskIds, s \in SourceSet :
          FallbackOk(t, s, NothingOlder) /\ UNCHANGED <<fetchVars, rowVars, http>>
    \/ \E d \in TickSteps : Tick(d)

-----------------------------------------------------------------------------
(* The abandoned flag of one inbound-queue row: derived by fetchReport,
   passed through the route handler, derived again by normalizeRow. *)

\* An agent_history entry is the set of what it carries: an answered_time,
\* an agent_action that includes "transfer", connected: true, an event that
\* includes "*7", or some other key.  {} is the empty object.
Entries ==
    {{}, {"answered_time"}, {"transfer"}, {"connected"}, {"star7"}, {"other"},
     {"connected", "answered_time"}}

MaxHistory == 2

\* agent_history: absent (null / undefined) or an array of entries.
Histories ==
    {[present |-> FALSE, entries |-> <<>>]}
      \cup {[present |-> TRUE, entries |-> e] :
               e \in UNION {[1..n -> Entries] : n \in 0..MaxHistory}}

\* answered_time: "" when upstream has none, else a timestamp.
\* abandoned: "" when upstream omits it.
InboundRows ==
    [agent_history : Histories, answered_time : {"", "1700000040"},
     abandoned : {"", "YES", "NO"}]

\* hist == null || hist.length === 0 || hist.every(h => h && no keys)
HistMissing(hist) ==
    \/ ~hist.present
    \/ Len(hist.entries) = 0
    \/ \A i \in 1..Len(hist.entries) : hist.entries[i] = {}

\* hist.length > 0 && hist.every(h => !h?.answered_time &&
\*                                    !h?.agent_action?.includes("transfer"))
HistNoAnswer(hist) ==
    /\ hist.present
    /\ Len(hist.entries) > 0
    /\ \A i \in 1..Len(hist.entries) :
          /\ "answered_time" \notin hist.entries[i]
          /\ "transfer" \notin hist.entries[i]

\* A derivation that keeps the flag upstream supplied.
DeriveAbandoned_keep(r) ==
    IF r.abandoned # "" THEN r.abandoned
    ELSE IF HistMissing(r.agent_history) \/ r.answered_time = ""
            \/ HistNoAnswer(r.agent_history)
         THEN "YES" ELSE "NO"

\* r.abandoned = (histMissing || !r.answered_time || histNoAnswer) ? "YES" : "NO"
DeriveAbandoned(r) ==
    IF HistMissing(r.agent_history) \/ r.answered_time = ""
       \/ HistNoAnswer(r.agent_history)
    THEN "YES" ELSE "NO"

\* The route handler: answered_time: ts ?? '--' (the entries of the model
\* carry no last_attempt to take a time from); agent_history stays an array.
ProcessRow(r) ==
    [r EXCEPT !.answered_time = IF @ = "" THEN "--" ELSE @]

\* computeAbandoned of script.js
computeAbandoned(r) ==
    LET history == r.agent_history IN
    IF ~history.present \/ Len(history.entries) = 0 THEN "YES"
    ELSE LET connected == \E i \in 1..Len(history.entries) :
                              "connected" \in history.entries[i]
             star7 == \E i \in 1..Len(history.entries) :
                              "star7" \in history.entries[i]
         IN IF connected THEN "NO"
            ELSE IF ~connected /\ ~star7 THEN "YES" ELSE "NO"

\* raw: the row as upstream sent it; row: the row as it is now; stage: "none"
\* (no row followed), "raw", "fetched" (returned by fetchReport), "sent" (sent
\* by the route handler), "shown" (normalised by the browser); shown: the
\* Abandoned column of the record.
NoInbound ==
    [raw |-> [agent_history |-> [present |-> FALSE, entries |-> <<>>],
              answered_time |-> "", abandoned |-> ""],
     row |-> [agent_history |-> [present |-> FALSE, entries |-> <<>>],
              answered_time |-> "", abandoned |-> ""],
     stage |-> "none", shown |-> ""]

InboundInit ==
    \E r \in InboundRows :
        inbound = [raw |-> r, row |-> r, stage |-> "raw", shown |-> ""]

\* fetchReport('queueCalls') derives the flag of the row it returns.
FetchRow ==
    /\ inbound.stage = "raw"
    /\ inbound' = [inbound EXCEPT !.stage = "fetched",
                                  !.row.abandoned = DeriveAbandoned(inbound.row)]
    /\ UNCHANGED <<clientVars, fetchVars, phone, record, heap, http>>

\* GET /api/reports/queueCalls maps the row into processedData.
SendRow ==
    /\ inbound.stage = "fetched"
    /\ inbound' = [inbound EXCEPT !.stage = "sent", !.row = ProcessRow(@)]
    /\ UNCHANGED <<clientVars, fetchVars, phone, record, heap, http>>

\* normalizeRow(row, 'in'): 'Abandoned': computeAbandoned(row)
ShowRow ==
    /\ inbound.stage = "sent"
    /\ inbound' = [inbound EXCEPT !.stage = "shown",
                                  !.shown = computeAbandoned(inbound.row)]
    /\ UNCHANGED <<clientVars, fetchVars, phone, record, heap, http>>

InboundNext == FetchRow \/ SendRow \/ ShowRow

\* fetchReport called with differing limits, upstream never failing.
LimitNext ==
    \/ \E c \in CallIds, report \in FetchReports, maxRows \in {1, 2} :
          \E cursor \in CursorsOf(report) :
              Call(c, report, cursor, maxRows) /\ UNCHANGED http
    \/ \E c \in CallIds : Respond(c)

-----------------------------------------------------------------------------
(* extractCountryFromPhoneNumber.  A string is the sequence of its
   characters; a value that is not a string (undefined, null, a number) has
   type "other". *)

MaxPhoneLen == 5

\* The numbers given: every short string over the characters 0, 1, 5, +
\* and -, a value that is not a string, and numbers that reach the prefix
\* rules.
PhoneNumbers ==
    LET Chars(str) == [type |-> "string", chars |-> str] IN
    {Chars(str) : str \in UNION {[1..n -> {"0", "1", "5", "+", "-"}] :
                                    n \in 0..MaxPhoneLen}}
      \cup {[type |-> "other", chars |-> <<>>]}
      \cup {Chars(<<"0", "5", "6", "8", "3", "3", "4", "1", "8", "1">>),
            Chars(<<"9", "7", "1", "5", "0", "1", "2", "3", "4", "5", "6", "7">>),
            Chars(<<"+", "9", "7", "1", " ", "5", "0", "1", "2", "3", "4", "5">>),
            Chars(<<"2", "0", "1", "2", "3", "4", "5", "6", "7">>),
            Chars(<<"9", "8", "7", "6", "5", "4", "3", "2", "1", "0">>),
            Chars(<<"0", "4", "1", "2", "3", "4", "5", "6", "7">>),
            Chars(<<"1", "2", "3", "4", "5", "6", "7", "8", "9", "0">>),
            Chars(<<"4", "4", "1", "2", "3", "4", "5", "6", "7", "8">>)}

\* What parsePhoneNumber of libphonenumber-js does with the cleaned number:
\* it throws, returns nothing usable, or returns a country code.
LibOutcomes == {"throws", "undefined", "AE", "ZZ"}

StartsWith(str, prefix) ==
    Len(str) >= Len(prefix) /\ SubSeq(str, 1, Len(prefix)) = prefix

\* cleanNumber.replace(/^0+/, '')
RECURSIVE StripZeros(_)
StripZeros(str) ==
    IF str # <<>> /\ Head(str) = "0" THEN StripZeros(Tail(str)) ELSE str

\* A cleaning that keeps the leading zeros.
CleanNumber_keepzeros(str) ==
    SelectSeq(str, LAMBDA ch : ch \in {"0", "1", "2", "3", "4", "5", "6", "7",
                                       "8", "9", "+"})

\* phoneNumber.replace(/[^\d+]/g, ''), then the leading zeros are stripped
\* unless the number starts with '+'
CleanNumber(str) ==
    LET clean == SelectSeq(str, LAMBDA ch : ch \in {"0", "1", "2", "3", "4", "5",
                                                   "6", "7", "8", "9", "+"})
    IN IF StartsWith(clean, <<"+">>) THEN clean ELSE StripZeros(clean)

extractCountryFromPhoneNumber(phoneNumber, lib) ==
    IF phoneNumber.type # "string" \/ phoneNumber.chars = <<>> THEN ""
    ELSE LET c == CleanNumber(phoneNumber.chars)
             n == Len(c)
             S(prefix) == StartsWith(c, prefix)
         IN IF n <= 4 THEN ""
            ELSE IF S(<<"+", "9", "7", "1">>) \/ S(<<"9", "7", "1">>) THEN "UAE"
            ELSE IF S(<<"+", "2", "0">>) \/ S(<<"2", "0">>) THEN "Egypt"
            ELSE IF n = 10 /\ (S(<<"9">>) \/ S(<<"8">>) \/ S(<<"7">>) \/ S(<<"6">>))
                 THEN "India"
            ELSE IF n \in {7, 8, 9, 10} /\ S(<<"5">>) THEN "UAE"
            ELSE IF n = 8 /\ (S(<<"4">>) \/ S(<<"2">>) \/ S(<<"3">>) \/ S(<<"6">>)
                              \/ S(<<"7">>))
                 THEN "UAE"
            ELSE IF n \in {10, 11} /\ S(<<"1">>) THEN "UK"
            ELSE IF S(<<"4", "4">>) /\ n >= 10 THEN "UK"
            \* parsePhoneNumber(cleanNumber); a throw is caught
            ELSE IF lib \in {"throws", "undefined"} THEN ""
            \* countryNames[countryCode] || countryCode
            ELSE IF lib = "AE" THEN "UAE" ELSE lib

NoPhone == [number |-> [type |-> "other", chars |-> <<>>], lib |-> "undefined",
            stage |-> "none", country |-> ""]

ExtractCountry ==
    /\ phone.stage = "given"
    /\ phone' = [phone EXCEPT
                   !.stage = "returned",
                   !.country = extractCountryFromPhoneNumber(phone.number, phone.lib)]
    /\ UNCHANGED <<clientVars, fetchVars, inbound, record, heap, http>>

-----------------------------------------------------------------------------
(* One upstream record from fetchReport's post-processing, through the route
   handler, to normalizeRow.  The abandoned flag is followed by the inbound
   pipeline above; here the record carries its histories, its durations and
   its timestamps. *)

Absent == -1            \* a number upstream did not supply (undefined / null)
MaxItems == 2

\* A history field: missing, a string that is not JSON, or an array whose
\* items are null ("null"), an object without the keys read ("{}") or an
\* object the code can read ("{ext}": ext, names; "{q}": ts, queue_name).
HistoryValues(items) ==
    {[kind |-> k, items |-> <<>>] : k \in {"missing", "string"}}
      \cup {[kind |-> "array", items |-> a] :
               a \in UNION {[1..n -> items] : n \in 0..MaxItems}}

UpstreamRecords ==
    [agent_history : HistoryValues({"null", "{}", "{ext}"}),
     queue_history : HistoryValues({"null", "{q}"}) \ {[kind |-> "string", items |-> <<>>]},
     talked_duration : {Absent, 0, 7},
     wait_duration : {Absent, 0, 3},
     called_time : {Absent, 100},
     answered_time : {Absent, 110},
     hangup_time : {Absent, 130}]

\* Extension: for the queue reports firstAgentHistory.ext is read from
\* agent_history[0], a TypeError when that item is null.
ExtensionThrows(report, r) ==
    /\ report \in {"queueCalls", "queueOutboundCalls"}
    /\ r.agent_history.kind = "array"
    /\ r.agent_history.items # <<>>
    /\ r.agent_history.items[1] = "null"

\* if (!record.talked_duration && record.hangup_time && record.answered_time)
\* ...; if (!record.wait_duration && record.called_time) ...: 0 and a missing
\* value are both falsy.
DeriveDurations(report, r) ==
    IF report \notin {"queueCalls", "queueOutboundCalls"} THEN r
    ELSE [r EXCEPT
            !.talked_duration =
                IF @ \in {Absent, 0} /\ r.hangup_time # Absent
                   /\ r.answered_time # Absent
                THEN r.hangup_time - r.answered_time ELSE @,
            !.wait_duration =
                IF @ \in {Absent, 0} /\ r.called_time # Absent
                THEN IF r.answered_time # Absent
                     THEN r.answered_time - r.called_time
                     ELSE IF r.hangup_time # Absent
                          THEN r.hangup_time - r.called_time ELSE @
                ELSE @]

\* A truncation that keeps the newest queue_history element.
TruncateQueueHistory_last(report, r) ==
    IF report = "queueOutboundCalls" /\ r.queue_history.kind = "array"
       /\ Len(r.queue_history.items) > 1
    THEN [r EXCEPT !.queue_history.items = <<@[Len(@)]>>]
    ELSE r

\* if (Array.isArray(rec.queue_history) && rec.queue_history.length > 1)
\*    rec.queue_history = [rec.queue_history[0]]
TruncateQueueHistory(report, r) ==
    IF report = "queueOutboundCalls" /\ r.queue_history.kind = "array"
       /\ Len(r.queue_history.items) > 1
    THEN [r EXCEPT !.queue_history.items = <<@[1]>>]
    ELSE r

\* The route handler: a string agent_history is parsed ([] when it is not
\* JSON); when answered_time is falsy, history.find(e => e.event === 'answer'
\* || e.connected) reads every item, a TypeError on a null item.
HandlerThrows(r) ==
    /\ r.answered_time = Absent
    /\ r.agent_history.kind = "array"
    /\ \E i \in 1..Len(r.agent_history.items) : r.agent_history.items[i] = "null"

\* (answered_time: ts ?? '--' is followed by the inbound pipeline.)
ProcessRecord(r) ==
    [r EXCEPT !.agent_history =
                 IF @.kind = "string" THEN [kind |-> "array", items |-> <<>>] ELSE @]

\* normalizeRow: historyToHtml reads h.last_attempt of every agent_history
\* item (campaign and queue kinds), queueHistoryToHtml h.ts of every
\* queue_history item and computeAbandoned h.connected (queue kinds); the CDR
\* branch reads no history.
NormalizeThrows(report, r) ==
    LET HasNull(h) == h.kind = "array" /\ \E i \in 1..Len(h.items) : h.items[i] = "null"
    IN \/ report \in {"queueCalls", "queueOutboundCalls", "campaignsActivity"}
          /\ HasNull(r.agent_history)
       \/ report \in {"queueCalls", "queueOutboundCalls"}
          /\ HasNull(r.queue_history)

\* raw: the record as upstream sent it; row: the record as it is now; stage:
\* "none" (no record followed), "raw", "fetched" (returned by fetchReport),
\* "sent" (sent by the route handler), "shown" (normalised by the browser),
\* or "threw", at being the step that threw.
NoRecord ==
    [report |-> "none",
     raw |-> [agent_history |-> [kind |-> "missing", items |-> <<>>],
              queue_history |-> [kind |-> "missing", items |-> <<>>],
              talked_duration |-> Absent, wait_duration |-> Absent,
              called_time |-> Absent, answered_time |-> Absent,
              hangup_time |-> Absent],
     row |-> [agent_history |-> [kind |-> "missing", items |-> <<>>],
              queue_history |-> [kind |-> "missing", items |-> <<>>],
              talked_duration |-> Absent, wait_duration |-> Absent,
              called_time |-> Absent, answered_time |-> Absent,
              hangup_time |-> Absent],
     stage |-> "none", at |-> "none"]

\* fetchReport post-processes the record: Extension, durations, and for the
\* outbound queue the queue_history truncation.
FetchRecord ==
    /\ record.stage = "raw"
    /\ record' =
         IF ExtensionThrows(record.report, record.row)
         THEN [record EXCEPT !.stage = "threw", !.at = "fetchReport"]
         ELSE [record EXCEPT
                 !.stage = "fetched",
                 !.row = TruncateQueueHistory(record.report,
                            DeriveDurations(record.report, @))]
    /\ UNCHANGED <<clientVars, fetchVars, inbound, phone, heap, http>>

\* GET /api/reports/:type maps the record into processedData.
SendRecord ==
    /\ record.stage = "fetched"
    /\ record' =
         IF HandlerThrows(record.row)
         THEN [record EXCEPT !.stage = "threw", !.at = "handler"]
         ELSE [record EXCEPT !.stage = "sent", !.row = ProcessRecord(@)]
    /\ UNCHANGED <<clientVars, fetchVars, inbound, phone, heap, http>>

\* normalizeRow(row, source)
ShowRecord ==
    /\ record.stage = "sent"
    /\ record' =
         IF NormalizeThrows(record.report, record.row)
         THEN [record EXCEPT !.stage = "threw", !.at = "normalizeRow"]
         ELSE [record EXCEPT !.stage = "shown"]
    /\ UNCHANGED <<clientVars, fetchVars, inbound, phone, heap, http>>

RecordNext == FetchRecord \/ SendRecord \/ ShowRecord

-----------------------------------------------------------------------------
(* The arrays behind the query cache.  reportCache.set stores the array
   fetchReport built, a cache hit returns [...cached.data]; a row is stood
   for by its number, an array by its place in heap.arrays. *)

MaxArrays == 3

\* arrays: the row arrays allocated so far (the first used of them); cached:
\* the array the cache entry of the key holds, 0 when there is no entry;
\* hits: the arrays cache hits have returned to callers; misses: the arrays
\* calls that missed the cache have returned to callers.
NoHeap ==
    [arrays |-> [a \in 1..MaxArrays |-> <<>>], used |-> 0, cached |-> 0,
     hits |-> {}, misses |-> {}]

\* A hit that hands out the cached array itself.
HitResult_same(h) == [heap |-> h, array |-> h.cached]

\* return [...cached.data]: a new array with the same elements
HitResult(h) ==
    [heap |-> [h EXCEPT !.used = @ + 1, !.arrays[h.used + 1] = h.arrays[h.cached]],
     array |-> h.used + 1]

\* A miss: fetchReport builds a new array of the rows upstream sent, stores
\* it in the cache (data: out) and returns it (rows: out).
CacheMiss(rows) ==
    /\ heap.used < MaxArrays
    /\ heap' = [heap EXCEPT !.used = @ + 1, !.arrays[heap.used + 1] = rows,
                            !.cached = heap.used + 1,
                            !.misses = @ \cup {heap.used + 1}]
    /\ UNCHANGED <<clientVars, fetchVars, inbound, phone, record, http>>

CacheHit ==
    /\ heap.cached # 0
    /\ heap.used < MaxArrays
    /\ LET r == HitResult(heap)
       IN heap' = [r.heap EXCEPT !.hits = @ \cup {r.array}]
    /\ UNCHANGED <<clientVars, fetchVars, inbound, phone, record, http>>

\* The caller changes an array fetchReport returned: push, pop, reverse.
Mutate(a, op) ==
    /\ a \in heap.hits \cup heap.misses
    /\ LET old == heap.arrays[a] IN
       heap' = [heap EXCEPT !.arrays[a] =
                   CASE op = "push" -> IF Len(old) < 3 THEN Append(old, 9) ELSE old
                     [] op = "pop" -> IF old = <<>> THEN old ELSE SubSeq(old, 1, Len(old) - 1)
                     [] OTHER -> [i \in 1..Len(old) |-> old[Len(old) + 1 - i]]]
    /\ UNCHANGED <<clientVars, fetchVars, inbound, phone, record, http>>

CacheNext ==
    \/ \E rows \in {<<1>>, <<1, 2>>, <<2, 1, 3>>} : CacheMiss(rows)
    \/ CacheHit
    \/ \E a \in 1..MaxArrays, op \in {"push", "pop", "reverse"} : Mutate(a, op)

-----------------------------------------------------------------------------
(* GET /api/reports/:type up to its call of fetchReport *)

\* status: 0 while no answer is sent, else the HTTP status.
\* limit: the limit passed to fetchReport in tenths of a row, 0 while none
\* has been computed.
NoRequest ==
    [type |-> "none", account |-> "", start |-> "", end |-> "", status |-> 0,
     limit |-> 0]

\* Math.min(Number(limitStr) || 1000, 1000), in tenths
Limit(limitStr) ==
    Min2(IF limitStr.nan \/ limitStr.tenths = 0 THEN 10000 ELSE limitStr.tenths,
         10000)

\* keys of ENDPOINTS
ENDPOINTS == {"cdrs", "queueCalls", "queueOutboundCalls", "campaignsActivity"}

\* A test that takes every string for a date.
DateParses_any(d) == TRUE

\* !Number.isNaN(Date.parse(d))
DateParses(d) == d # "bad"

Request(c, type, account, start, end, limitStr) ==
    LET q == [type |-> type, account |-> account, start |-> start, end |-> end,
              status |-> 0, limit |-> 0]
        limit == Limit(limitStr)
    IN IF \/ account = ""
          \/ start # "" /\ ~DateParses(start)
          \/ end # "" /\ ~DateParses(end)
       THEN \* res.status(400)
            /\ http' = [q EXCEPT !.status = 400]
            /\ UNCHANGED <<clientVars, fetchVars, rowVars>>
       ELSE IF type \notin ENDPOINTS
       THEN \* fetchReport throws before its cache lookup; res.status(500)
            /\ http' = [q EXCEPT !.status = 500, !.limit = limit]
            /\ UNCHANGED <<clientVars, fetchVars, rowVars>>
       ELSE \* maxRows: limit; records.slice(0, remaining) takes whole rows
            /\ http' = [q EXCEPT !.limit = limit]
            /\ Call(c, type, None, limit \div 10)

\* What a request may carry: a report kind (one of them unknown), an account
\* or none, and for start and end no value, a date or a string Date.parse
\* turns into NaN.
RequestNext ==
    \/ \E c \in CallIds, type \in {"queueCalls", "agents"}, account \in {"", "acme"},
          start \in {"", "2024-01-01T00:00:00Z", "bad"},
          end \in {"", "2024-01-01T00:00:00Z", "bad"} :
          Request(c, type, account, start, end,
                  [given |-> "2", nan |-> FALSE, tenths |-> 20])
    \/ \E c \in CallIds : Respond(c)
    \/ \E c \in CallIds : AttemptFail(c)
    \/ \E c \in CallIds : BackoffElapse(c)

\* Requests that differ in their limit parameter: what was given, whether
\* Number() of it is NaN, and else its value in tenths (an absent parameter
\* is undefined, NaN).
LimitParamNext ==
    \/ \E c \in CallIds, type \in {"queueCalls", "cdrs", "agents"},
          limitStr \in {[given |-> "absent", nan |-> TRUE, tenths |-> 0],
                        [given |-> "abc", nan |-> TRUE, tenths |-> 0],
                        [given |-> "0", nan |-> FALSE, tenths |-> 0],
                        [given |-> "-5", nan |-> FALSE, tenths |-> -50],
                        [given |-> "2", nan |-> FALSE, tenths |-> 20],
                        [given |-> "2.5", nan |-> FALSE, tenths |-> 25],
                        [given |-> "2000", nan |-> FALSE, tenths |-> 20000]} :
          Request(c, type, "acme", "", "", limitStr)
    \/ \E c \in CallIds : Respond(c)

-----------------------------------------------------------------------------
(* The browser under two different queries.  The server answers a request
   with the data of the window the request names: the inbound rows and the
   inbound cursor of the first window are call 1 and "k1", those of the
   second window call 2 and "j1". *)

QueryResponses(s, w) ==
    IF s # "in" THEN {[rows |-> <<>>, next |-> Null]}
    ELSE IF w.start = T0
    THEN {[rows |-> <<Row(1, Sec(T0 + 30))>>, next |-> n] : n \in {Null, "k1"}}
    ELSE {[rows |-> <<Row(2, Sec(T0 + 230))>>, next |-> n] : n \in {Null, "j1"}}

\* Requests are built from baseQuery; the page being at rest when the user
\* acts, baseQuery is still the window of the request when its answer comes.
QueryNext ==
    \/ \E t \in TaskIds, w \in {[start |-> T0, end |-> T0 + 100],
                                [start |-> T0 + 200, end |-> T0 + 300]} :
          UserSubmit(t, w) /\ UNCHANGED <<fetchVars, rowVars, http>>
    \/ \E t \in TaskIds, s \in SourceSet : \E resp \in QueryResponses(s, baseQuery) :
          FirstOk(t, s, resp) /\ UNCHANGED <<fetchVars, rowVars, http>>
    \/ \E t \in TaskIds : \E resp \in QueryResponses("in", baseQuery) :
          \* only the inbound source hands out cursors here
          CursorOk(t, "in", resp) /\ UNCHANGED <<fetchVars, rowVars, http>>
    \/ \E t \in TaskIds, s \in SourceSet :
          FallbackOk(t, s, NothingOlder) /\ UNCHANGED <<fetchVars, rowVars, http>>
    \/ \E t \in TaskIds, s \in SourceSet : RespondFail(t, s) /\ UNCHANGED <<fetchVars, rowVars, http>>
    \/ \E t \in TaskIds : UserNext(t) /\ UNCHANGED <<fetchVars, rowVars, http>>

-----------------------------------------------------------------------------
(* One session in which the server's answers are fixed, so that behaviours
   differ only in the order in which the answers of a round arrive.  Two
   windows with different data; several sources hand out cursors; a fallback
   request is answered with the rows not younger than the end it names. *)

MaxRounds == 5

RoundAnswer(s, stage, w, end) ==
    LET a == w.start = T0
        none == [rows |-> <<>>, next |-> Null]
        older == IF a /\ s = "in" THEN <<Row(6, Sec(T0 + 5))>>
                 ELSE IF ~a /\ s = "in" THEN <<Row(9, Sec(T0 + 3))>>
                 ELSE <<>>
    IN IF stage = "first"
       THEN IF a
            THEN CASE s = "in" -> [rows |-> <<Row(1, Sec(T0 + 30)), Row(2, Sec(T0 + 10))>>,
                                   next |-> "k1"]
                   [] s = "out" -> [rows |-> <<Row(4, Sec(T0 + 20))>>, next |-> "o1"]
                   [] s = "cdr" -> [rows |-> <<Row(1, Sec(T0 + 30))>>, next |-> Null]
                   [] OTHER -> none
            ELSE CASE s = "in" -> [rows |-> <<Row(1, Sec(T0 + 30))>>, next |-> Null]
                   [] s = "camp" -> [rows |-> <<Row(EmptyId, Iso(T0 + 20)),
                                               Row(EmptyId, Iso(T0 + 20))>>,
                                     next |-> "c1"]
                   [] s = "cdr" -> [rows |-> <<Row(7, Ms(T0 + 40))>>, next |-> "d1"]
                   [] OTHER -> none
       ELSE IF stage = "cursor"
       THEN CASE s = "in" -> [rows |-> <<Row(3, Sec(T0 + 25))>>, next |-> Null]
              [] s = "out" -> [rows |-> <<Row(5, Sec(T0 + 15))>>, next |-> Null]
              [] s = "camp" -> [rows |-> <<Row(EmptyId, Iso(T0 + 26))>>, next |-> Null]
              [] OTHER -> [rows |-> <<Row(8, Sec(T0 + 12))>>, next |-> Null]
       ELSE [rows |-> SelectSeq(older,
                        LAMBDA r : toEpoch(normalizeRow(r, s)) <= end),
             next |-> Null]

RoundNext ==
    \/ \E t \in TaskIds, w \in {[start |-> T0, end |-> T0 + 100],
                                [start |-> T0 + 200, end |-> T0 + 300]} :
          /\ nHandlers = 0
          /\ Submit(t, w) /\ UNCHANGED <<fetchVars, rowVars, http>>
    \/ \E t \in TaskIds :
          /\ Quiet /\ nHandlers < MaxRounds
          /\ NextClick(t) /\ UNCHANGED <<fetchVars, rowVars, http>>
    \/ \E t \in TaskIds, s \in SourceSet :
          FirstOk(t, s, RoundAnswer(s, "first", baseQuery, NoEnd))
             /\ UNCHANGED <<fetchVars, rowVars, http>>
    \/ \E t \in TaskIds, s \in SourceSet :
          CursorOk(t, s, RoundAnswer(s, "cursor", baseQuery, NoEnd))
             /\ UNCHANGED <<fetchVars, rowVars, http>>
    \/ \E t \in TaskIds, s \in SourceSet :
          FallbackOk(t, s, RoundAnswer(s, "fallback", baseQuery, tasks[t].fbEnd))
             /\ UNCHANGED <<fetchVars, rowVars, http>>

-----------------------------------------------------------------------------
(* One session served by the route handler and fetchReport, every request
   succeeding.  The inbound source is fetchReport('queueCalls') over
   UpstreamPages, with its cache; the cdr source answers from fixed data,
   the other two have none.  For a window that ends at end upstream serves
   the same pages without the rows younger than end. *)

MaxSession == 6

\* fetchReport on a miss, no attempt failing: the while loop over the pages
\* of the window ending at end (NoEnd: the window of the query).
RECURSIVE WindowResult(_, _, _, _, _)
WindowResult(report, req, out, maxRows, end) ==
    LET page == UpstreamPage(report, req)
        rows == IF end = NoEnd THEN page.rows
                ELSE SelectSeq(page.rows,
                       LAMBDA r : toEpoch(normalizeRow(r, "in")) <= end)
        out1 == PushRows(out, rows, maxRows)
    IN IF LoopEnds(out1, page.next)
       THEN [rows |-> PostProcess(report, out1), next |-> page.next, hit |-> FALSE]
       ELSE WindowResult(report, page.next, out1, maxRows, end)

\* The request of handler t to source s is served and its answer taken.
\* The requests of the first and the cursor round carry the window of the
\* query and share one cache key, whatever their startKey; a fallback
\* request carries an end no earlier request of the session had, so that it
\* misses the cache (the entry it leaves is never looked up again).
SessionAnswer(t, s) ==
    /\ tasks[t].pc = "await"
    /\ s \in tasks[t].pending
    /\ LET stage == tasks[t].stage
           end == tasks[t].fbEnd
           cached == reportCache["queueCalls"]
           hit == stage # "fallback" /\ CacheFresh(cached, now)
           fetched == WindowResult("queueCalls",
                         IF stage = "cursor" THEN nextTokens["in"] ELSE None,
                         <<>>, PAGE_SIZE, IF stage = "fallback" THEN end ELSE NoEnd)
           result == IF hit THEN [rows |-> cached.data, next |-> Null, hit |-> TRUE]
                     ELSE fetched
           other == [rows |-> IF stage = "fallback"
                              THEN SelectSeq(OtherResponse(s).rows,
                                     LAMBDA r : toEpoch(normalizeRow(r, s)) <= end)
                              ELSE OtherResponse(s).rows,
                     next |-> Null]
           resp == IF s = "in" THEN HandlerResponse(result) ELSE other
       IN /\ \/ FirstOk(t, s, resp)
             \/ CursorOk(t, s, resp)
             \/ FallbackOk(t, s, resp)
          /\ reportCache' =
                IF s = "in" /\ ~hit /\ stage # "fallback"
                THEN [reportCache EXCEPT !["queueCalls"] =
                        [expires |-> Expires(now), data |-> fetched.rows, at |-> now,
                         cursor |-> IF stage = "cursor" THEN nextTokens["in"] ELSE None,
                         next |-> fetched.next]]
                ELSE reportCache
    /\ UNCHANGED <<calls, now, firstPages, handedOut, nCalls, nTicks, nFails>>
    /\ UNCHANGED <<rowVars, http>>

\* The consumer submits one query and then asks for the next batch whenever
\* the page is at rest and Next is offered.
SessionNext ==
    \/ \E t \in TaskIds, w \in Windows :
          /\ nHandlers = 0
          /\ Submit(t, w) /\ UNCHANGED <<fetchVars, rowVars, http>>
    \/ \E t \in TaskIds :
          /\ Quiet /\ nHandlers < MaxSession
          /\ NextClick(t) /\ UNCHANGED <<fetchVars, rowVars, http>>
    \/ \E t \in TaskIds, s \in SourceSet : SessionAnswer(t, s)
    \/ \E d \in TickSteps : Tick(d)

-----------------------------------------------------------------------------
(* Specifications *)

\* The browser, the server's answers being inputs.
Init ==
    /\ ClientInit /\ FetchInit
    /\ inbound = NoInbound /\ phone = NoPhone /\ record = NoRecord
    /\ heap = NoHeap /\ http = NoRequest

AbandonedInit ==
    /\ ClientInit /\ FetchInit /\ InboundInit
    /\ phone = NoPhone /\ record = NoRecord /\ heap = NoHeap /\ http = NoRequest

Spec == Init /\ [][ClientNext]_vars

\* The server's fetchReport, its callers and upstream being inputs.
SpecFetch == Init /\ [][FetchNext]_vars

\* The browser with overlapping handlers.
SpecRacing == Init /\ [][RacingClientNext]_vars

\* The browser served by the route handler and fetchReport.
SpecServed == Init /\ [][ServedNext]_vars

\* One inbound row from upstream to the table.
SpecAbandoned == AbandonedInit /\ [][InboundNext]_vars

\* fetchReport under callers that ask for different limits.
SpecLimit == Init /\ [][LimitNext]_vars

\* One number through extractCountryFromPhoneNumber.
CountryInit ==
    /\ ClientInit /\ FetchInit
    /\ \E v \in PhoneNumbers, lib \in LibOutcomes :
          phone = [number |-> v, lib |-> lib, stage |-> "given", country |-> ""]
    /\ inbound = NoInbound /\ record = NoRecord /\ heap = NoHeap /\ http = NoRequest

SpecCountry == CountryInit /\ [][ExtractCountry]_vars

\* One record from upstream to the table.
RecordInit ==
    /\ ClientInit /\ FetchInit
    /\ \E report \in ENDPOINTS, r \in UpstreamRecords :
          record = [report |-> report, raw |-> r, row |-> r, stage |-> "raw",
                    at |-> "none"]
    /\ inbound = NoInbound /\ phone = NoPhone /\ heap = NoHeap /\ http = NoRequest

SpecRecord == RecordInit /\ [][RecordNext]_vars

\* The cached array, the copies handed out and what callers do to them.
SpecCache == Init /\ [][CacheNext]_vars

\* The route handler in front of fetchReport.
SpecRequest == Init /\ [][RequestNext]_vars

\* The browser under two queries.
SpecQueries == Init /\ [][QueryNext]_vars

\* One session, the answers arriving in every order.
SpecRound == Init /\ [][RoundNext]_vars

\* One session against the server.
SpecSession == Init /\ [][SessionNext]_vars

\* The same session when the consumer goes on asking and every request
\* succeeds: the submit and the click on an offered Next are not put off for
\* ever, and every outstanding request is answered.
SpecSessionLive ==
    /\ Init /\ [][SessionNext]_vars
    /\ WF_vars(\E t \in TaskIds, w \in Windows :
                  /\ nHandlers = 0
                  /\ Submit(t, w) /\ UNCHANGED <<fetchVars, rowVars, http>>)
    /\ WF_vars(\E t \in TaskIds :
                  /\ Quiet /\ nHandlers < MaxSession
                  /\ NextClick(t) /\ UNCHANGED <<fetchVars, rowVars, http>>)
    /\ \A t \in TaskIds : (tasks[t].pending # {}) ~> (tasks[t].pending = {})

\* The route handler under every kind of limit parameter.
SpecLimitParam == Init /\ [][LimitParamNext]_vars

-----------------------------------------------------------------------------
(* Claims about the merge engine *)

\* C1: after every completed reveal step the revealed list is sorted by
\* non-increasing event time: toEpoch(lastRecords[i]) >= toEpoch(lastRecords[i+1]).
C1_RevealedSortedDescending ==
    \A i \in 1..(Len(lastRecords) - 1) :
        toEpoch(lastRecords[i]) >= toEpoch(lastRecords[i + 1])

\* A later round (cursor or fallback) has revealed records, and the list
\* holds records of at least two event times, one of them unknown.
C1_Witness ==
    /\ \E t \in TaskIds : tasks[t].kind = "next" /\ tasks[t].revealed
                          /\ tasks[t].added > 0
    /\ Len(lastRecords) >= 3
    /\ toEpoch(lastRecords[1]) > toEpoch(lastRecords[Len(lastRecords)])

C3_PartialFailureStillReveals ==
    \A t \in TaskIds :
        (tasks[t].failed /\ tasks[t].okRows /\ tasks[t].pending = {})
            => tasks[t].revealed

\* C10: a loadNextChunks call made while all four cursors are null and some
\* record is revealed issues the fallback round, its window ending 1 second
\* before the smallest event time among the revealed records.
C10_FallbackIssuedBeforeOldest ==
    \A t \in TaskIds :
        (tasks[t].kind = "next" /\ tasks[t].startNull /\ tasks[t].fbOldest # NoEnd)
            => /\ tasks[t].stage = "fallback"
               /\ tasks[t].fbEnd = tasks[t].fbOldest - 1

\* C11: a fallback-window round is issued only when, after the cursor
\* answers of the loadNextChunks call have been applied, all four cursors are
\* null.
C11_FallbackOnlyWhenAllCursorsNull ==
    [][\A t \in TaskIds :
          (tasks'[t].stage = "fallback" /\ tasks'[t].pc = "await"
           /\ ~(tasks[t].stage = "fallback" /\ tasks[t].pc = "await"))
              => \A s \in SourceSet : nextTokens'[s] = "null"]_vars

\* A loadNextChunks call fetched through a cursor, found every cursor null
\* afterwards and went on to the fallback round.
C11_Witness ==
    \E t \in TaskIds :
        /\ tasks[t].kind = "next" /\ tasks[t].stage = "fallback"
        /\ ~tasks[t].startNull
        /\ tasks[t].pc = "await"

\* C12: a revealNextBatch call lengthens the revealed list by at most
\* PAGE_SIZE, and by less only when it leaves all four buffers empty; a
\* record dropped by the dedup does not count toward the quota.
C12_BatchQuota ==
    \A t \in TaskIds :
        (tasks[t].revealed /\ tasks[t].pc = "done") =>
            /\ tasks[t].added <= PAGE_SIZE
            /\ tasks[t].added <= tasks[t].popped
            /\ tasks[t].added < PAGE_SIZE => \A s \in SourceSet : buffers[s] = <<>>

\* A batch reached the quota although one of the records it shifted out of
\* the buffers was dropped as a duplicate.
C12_Witness ==
    \E t \in TaskIds :
        /\ tasks[t].revealed /\ tasks[t].pc = "done"
        /\ tasks[t].added = PAGE_SIZE
        /\ tasks[t].popped > PAGE_SIZE

\* C13: Next is disabled on the last page (the session is shown as
\* exhausted) only after a fallback-window round that added no record.
C13_ExhaustedOnlyAfterFallback ==
    (nav.shown /\ ~nav.next) =>
        \E t \in TaskIds :
            /\ tasks[t].kind = "next" /\ tasks[t].stage = "fallback"
            /\ tasks[t].revealed /\ tasks[t].added = 0

\* C16: apart from the reset made when a new query is applied, every record
\* of the revealed list stays in it, as often as it was there.
C16_RevealedOnlyGrows ==
    [][(~\E t \in TaskIds : /\ tasks[t].kind = "submit"
                            /\ tasks[t].pc = "await"
                            /\ tasks'[t].pc = "done")
          => \A i \in 1..Len(lastRecords) :
                Cardinality({j \in 1..Len(lastRecords') :
                                lastRecords'[j] = lastRecords[i]})
                  >= Cardinality({j \in 1..Len(lastRecords) :
                                lastRecords[j] = lastRecords[i]})]_vars

\* A later batch brought a record whose Call ID was already revealed, and
\* the list holds the inbound record first revealed for that Call ID.
C16_Witness ==
    /\ \E t \in TaskIds : /\ tasks[t].kind = "next" /\ tasks[t].revealed
                          /\ tasks[t].popped > tasks[t].added
    /\ \E i \in 1..Len(lastRecords) :
          lastRecords[i].CallID = 1 /\ lastRecords[i].Type = "Inbound"

\* C14: at most one loadNextChunks call is in flight at any time.
C14_OneRoundInFlight ==
    Cardinality({t \in TaskIds : tasks[t].kind = "next" /\ tasks[t].pc = "await"}) <= 1

\* C15: once the first pages of a new query have been applied, a handler
\* started before that query puts no record into a buffer and no cursor
\* into nextTokens.
C15_NoDataOfPreviousQuery ==
    [][\A t, u \in TaskIds :
          (/\ tasks[u].kind = "submit" /\ tasks[u].pc = "done"
           /\ tasks[t].kind = "next" /\ tasks[t].born < tasks[u].born
           /\ tasks'[t] # tasks[t])
              => \A s \in SourceSet :
                    /\ Len(buffers'[s]) <= Len(buffers[s])
                    /\ nextTokens'[s] \in {nextTokens[s], "null"}]_vars

-----------------------------------------------------------------------------
(* Claims about fetchReport *)

\* C4: one fetchReport call makes at most 3 attempts; a failed attempt is
\* followed by a wait of 1000 ms before attempt 2 and of 2000 ms before
\* attempt 3, and the failure of attempt 3 reaches the caller at once, with
\* no further wait and no fourth attempt.
C4_ThreeAttemptsBackoff ==
    \A c \in CallIds :
        LET cl == calls[c] IN
        /\ cl.attempt <= 2
        /\ cl.fails <= 3
        /\ Len(cl.waits) <= 2
        /\ Len(cl.waits) >= 1 => cl.waits[1] = 1000
        /\ Len(cl.waits) >= 2 => cl.waits[2] = 2000
        /\ cl.pc = "request" => (cl.attempt = cl.fails /\ Len(cl.waits) = cl.fails)
        /\ cl.pc = "backoff" => (cl.attempt = cl.fails - 1 /\ Len(cl.waits) = cl.fails)
        /\ cl.fails = 3 <=> cl.pc = "failed"
        /\ cl.pc = "failed" => (cl.attempt = 2 /\ cl.waits = <<1000, 2000>>)

C4_Witness ==
    \E c \in CallIds :
        calls[c].pc = "failed" /\ calls[c].fails = 3 /\ calls[c].waits = <<1000, 2000>>

\* C5: a call whose first one or two attempts fail and whose next attempt
\* succeeds returns the rows and the cursor the same call returns when no
\* attempt fails, also when the failure came after the loop had moved past
\* empty pages.
C5_RetryReturnsSameResult ==
    \A c \in CallIds :
        (calls[c].pc = "done" /\ ~calls[c].result.hit /\ calls[c].fails > 0) =>
            LET expected == NoFailResult(calls[c].report, calls[c].cursor,
                                         calls[c].maxRows)
            IN /\ calls[c].result.rows = expected.rows
               /\ calls[c].result.next = expected.next

C5_Witness ==
    \E c \in CallIds :
        /\ calls[c].pc = "done" /\ ~calls[c].result.hit
        /\ calls[c].fails = 2
        /\ calls[c].advFail
        /\ Len(calls[c].result.rows) > 0

\* C6: when the caller passes back the cursor an earlier call returned, the
\* first upstream request of the call uses exactly that cursor.
C6_PassedBackCursorIsRequested ==
    \A c \in CallIds :
        (calls[c].pc = "done" /\ calls[c].cursor # None /\ calls[c].passedBack) =>
            calls[c].firstReq = calls[c].cursor

\* C7: the result of a call that carries a cursor is never stored in the
\* cache: every entry holds the rows of a cursor-less call.
C7_OnlyCursorlessResultsCached ==
    \A k \in FetchReports :
        reportCache[k] # NoEntry => reportCache[k].cursor = None

\* C8: re-issuing a cursor-less query within CACHE_TTL of its last fetch
\* makes no upstream request and returns the rows of that fetch.
C8_ReissueReturnsFirstPage ==
    \A c \in CallIds :
        (calls[c].pc = "done" /\ calls[c].cursor = None /\ calls[c].reissue) =>
            /\ calls[c].nReq = 0
            /\ calls[c].result.rows = calls[c].expect

\* C9: an entry expires CACHE_TTL after the fetch that created it: a lookup
\* at or after that instant fetches from upstream as if there were no entry,
\* a lookup strictly before it makes no upstream request.
C9_EntryExpiresAfterTtl ==
    \A c \in CallIds :
        (calls[c].pc # "idle" /\ calls[c].sawAt # NoEnd) =>
            /\ calls[c].t0 < calls[c].sawAt + 300000 =>
                   (calls[c].pc = "done" /\ calls[c].result.hit /\ calls[c].nReq = 0)
            /\ calls[c].t0 >= calls[c].sawAt + 300000 =>
                   /\ ~calls[c].result.hit
                   /\ calls[c].pc = "done" =>
                        /\ calls[c].nReq >= 1
                        /\ calls[c].result.rows =
                             NoFailResult(calls[c].report, calls[c].cursor,
                                          calls[c].maxRows).rows

C9_Witness ==
    \E c \in CallIds :
        /\ calls[c].pc = "done"
        /\ calls[c].sawAt # NoEnd
        /\ calls[c].t0 = calls[c].sawAt + 300000
        /\ calls[c].nReq >= 1

\* C17: the number of rows a fetchReport call returns never exceeds the
\* maxRows of that call, also when the call is answered from the cache.
C17_RowsWithinLimit ==
    \A c \in CallIds :
        calls[c].pc = "done" => Len(calls[c].result.rows) <= calls[c].maxRows

\* C18 as stated: of the rows of a fetched inbound page that share a
\* non-empty call_id, fetchReport returns exactly the first; and the
\* revealed list holds at most one record per non-empty Call ID.
C18_FirstLegOfEveryCallOnPage ==
    /\ \A c \in CallIds :
          (calls[c].pc = "done" /\ ~calls[c].result.hit
           /\ calls[c].report = "queueCalls") =>
             LET page == calls[c].pageRows
                 rows == calls[c].result.rows
             IN \A i \in 1..Len(page) :
                   page[i].call_id # 0 =>
                      LET first == CHOOSE k \in 1..Len(page) :
                                      /\ page[k].call_id = page[i].call_id
                                      /\ \A m \in 1..(k - 1) :
                                            page[m].call_id # page[i].call_id
                      IN {j \in 1..Len(rows) : rows[j].call_id = page[i].call_id}
                            = {j \in 1..Len(rows) : rows[j] = page[first]}
                         /\ Cardinality({j \in 1..Len(rows) :
                                           rows[j] = page[first]}) = 1
    /\ \A i, j \in 1..Len(lastRecords) :
          (i # j /\ lastRecords[i].CallID # 0)
              => lastRecords[i].CallID # lastRecords[j].CallID

\* C18 amended: the same, of the rows of the page that lie within the limit
\* of the call (its first maxRows rows).
C18_FirstLegOfEveryCallWithinLimit ==
    /\ \A c \in CallIds :
          (calls[c].pc = "done" /\ ~calls[c].result.hit
           /\ calls[c].report = "queueCalls") =>
             LET n == IF calls[c].maxRows < Len(calls[c].pageRows)
                      THEN calls[c].maxRows ELSE Len(calls[c].pageRows)
                 page == SubSeq(calls[c].pageRows, 1, n)
                 rows == calls[c].result.rows
             IN \A i \in 1..Len(page) :
                   page[i].call_id # 0 =>
                      LET first == CHOOSE k \in 1..Len(page) :
                                      /\ page[k].call_id = page[i].call_id
                                      /\ \A m \in 1..(k - 1) :
                                            page[m].call_id # page[i].call_id
                      IN {j \in 1..Len(rows) : rows[j].call_id = page[i].call_id}
                            = {j \in 1..Len(rows) : rows[j] = page[first]}
                         /\ Cardinality({j \in 1..Len(rows) :
                                           rows[j] = page[first]}) = 1
    /\ \A i, j \in 1..Len(lastRecords) :
          (i # j /\ lastRecords[i].CallID # 0)
              => lastRecords[i].CallID # lastRecords[j].CallID

\* A later page brought another leg of call 1 to the browser, whose reveal
\* dropped it: the list holds one record of call 1.
C18_Witness ==
    /\ calls[1].pc = "done" /\ ~calls[1].result.hit /\ calls[1].delivered
    /\ calls[1].cursor = "k2"
    /\ \E i \in 1..Len(calls[1].result.rows) : calls[1].result.rows[i].call_id = 1
    /\ \E t \in TaskIds : /\ tasks[t].kind = "next" /\ tasks[t].revealed
                          /\ tasks[t].popped > tasks[t].added
    /\ Cardinality({j \in 1..Len(lastRecords) : lastRecords[j].CallID = 1}) = 1

-----------------------------------------------------------------------------
(* Claims about the abandoned flag *)

C20_ServerAndBrowserAgree ==
    inbound.stage = "shown" =>
        LET h == inbound.raw.agent_history IN
        /\ (h.present /\ h.entries = <<>> /\ inbound.raw.answered_time = "")
              => (inbound.shown = "YES" /\ inbound.row.abandoned = "YES")
        /\ (h.present /\ Len(h.entries) = 1 /\ "connected" \in h.entries[1])
              => (inbound.shown = "NO" /\ inbound.row.abandoned = "NO")

-----------------------------------------------------------------------------
(* Claims about the post-processing of records *)

\* C21: extractCountryFromPhoneNumber returns "UAE" for "0568334181" and for
\* "971501234567", and the empty string for every input that has at most 4
\* characters left once everything but digits and '+' is removed and the
\* leading zeros are stripped.
C21_ShortNumbersHaveNoCountry ==
    phone.stage = "returned" =>
        LET str == phone.number.chars
            kept == SelectSeq(str, LAMBDA ch : ch \in {"0", "1", "2", "3", "4", "5",
                                                      "6", "7", "8", "9", "+"})
            zeros == CHOOSE z \in 0..Len(kept) :
                        /\ \A i \in 1..z : kept[i] = "0"
                        /\ z < Len(kept) => kept[z + 1] # "0"
        IN /\ str = <<"0", "5", "6", "8", "3", "3", "4", "1", "8", "1">>
                => phone.country = "UAE"
           /\ str = <<"9", "7", "1", "5", "0", "1", "2", "3", "4", "5", "6", "7">>
                => phone.country = "UAE"
           /\ (phone.number.type = "string" /\ Len(kept) - zeros <= 4)
                => phone.country = ""

\* A number of five characters was cut down to an extension by the cleaning,
\* although the library would have named a country for it.
C21_Witness ==
    /\ phone.stage = "returned"
    /\ phone.number.chars = <<"0", "0", "-", "1", "5">>
    /\ phone.lib = "AE"
    /\ phone.country = ""

\* C22: the post-processing of fetchReport, the route handler and normalizeRow
\* never throw, whatever fields of the upstream record are missing, null, of
\* the wrong type or hold null items.
C22_NormalizationNeverThrows == record.stage # "threw"

\* C25: for the queue kinds a talked_duration or wait_duration supplied by
\* upstream is returned unchanged; a missing talked_duration becomes
\* hangup_time - answered_time when both are there; a missing wait_duration
\* becomes answered_time - called_time for an answered call, else hangup_time
\* - called_time; records of the campaign and CDR kinds keep what they had.
C25_DerivedDurations ==
    record.stage = "fetched" =>
        LET raw == record.raw
            row == record.row
        IN IF record.report \in {"queueCalls", "queueOutboundCalls"}
           THEN /\ raw.talked_duration # -1 => row.talked_duration = raw.talked_duration
                /\ raw.wait_duration # -1 => row.wait_duration = raw.wait_duration
                /\ (raw.talked_duration = -1 /\ raw.hangup_time # -1
                    /\ raw.answered_time # -1)
                      => row.talked_duration = raw.hangup_time - raw.answered_time
                /\ (raw.wait_duration = -1 /\ raw.called_time # -1
                    /\ raw.answered_time # -1)
                      => row.wait_duration = raw.answered_time - raw.called_time
                /\ (raw.wait_duration = -1 /\ raw.called_time # -1
                    /\ raw.answered_time = -1 /\ raw.hangup_time # -1)
                      => row.wait_duration = raw.hangup_time - raw.called_time
           ELSE /\ row.talked_duration = raw.talked_duration
                /\ row.wait_duration = raw.wait_duration

\* C26: for an outbound-queue record returned by fetchReport, queue_history
\* is the first element of the upstream queue_history alone (and is as
\* upstream sent it when that had 0 or 1 elements or was no array), and
\* agent_history is as upstream sent it.
C26_QueueHistoryTruncated ==
    (record.stage = "fetched" /\ record.report = "queueOutboundCalls") =>
        /\ record.row.agent_history = record.raw.agent_history
        /\ record.row.queue_history =
              IF Len(record.raw.queue_history.items) > 1
              THEN [kind |-> "array", items |-> <<record.raw.queue_history.items[1]>>]
              ELSE record.raw.queue_history

\* An outbound record with two different queue_history elements and two
\* agent_history elements was returned.
C26_Witness ==
    /\ record.stage = "fetched" /\ record.report = "queueOutboundCalls"
    /\ record.raw.queue_history.items = <<"{q}", "null">>
    /\ Len(record.raw.agent_history.items) = 2
    /\ record.row.queue_history.items = <<"{q}">>

-----------------------------------------------------------------------------
(* Claims about the route handler and the cache *)

C24_HitArrayIsACopy ==
    [][(\E a \in heap.hits : heap'.arrays[a] # heap.arrays[a])
          => /\ heap'.cached = heap.cached
             /\ heap'.arrays[heap.cached] = heap.arrays[heap.cached]]_vars

\* A caller has changed the array a hit returned, and a later hit returned
\* the rows as they were stored.
C24_Witness ==
    \E a, b \in heap.hits :
        /\ a < b
        /\ heap.arrays[a] # heap.arrays[heap.cached]
        /\ heap.arrays[b] = heap.arrays[heap.cached]
        /\ heap.arrays[heap.cached] = <<2, 1, 3>>

\* C30: on a cache miss a successful fetchReport call returns zero rows only
\* together with a null cursor: after a page without rows that carries a
\* cursor the call requests the following page within the same attempt.
C30_EmptyResultOnlyAtEnd ==
    \A c \in CallIds :
        /\ (calls[c].pc = "done" /\ ~calls[c].result.hit
            /\ calls[c].result.rows = <<>>) => calls[c].result.next = "null"
        /\ (calls[c].pc = "done" /\ ~calls[c].result.hit)
              => (calls[c].pageRows # <<>> \/ calls[c].nextStartKey = "null")
        /\ (calls[c].pc \in {"request", "backoff"} /\ calls[c].nReq > 0)
              => (calls[c].pageRows = <<>> /\ calls[c].startKey = calls[c].nextStartKey
                  /\ calls[c].startKey # "null")

\* A call read an empty page with a cursor and then a page with rows, no
\* attempt failing in between.
C30_Witness ==
    \E c \in CallIds :
        /\ calls[c].pc = "done" /\ ~calls[c].result.hit
        /\ calls[c].fails = 0
        /\ calls[c].nReq = 2
        /\ calls[c].result.rows # <<>>

-----------------------------------------------------------------------------
(* Claims about the merge steps *)

\* The first n merge steps from the buffers b each move the head of a
\* buffer whose head is the newest of all heads, the first such buffer in the
\* order inbound, outbound, campaign, CDR.
RECURSIVE C27_StepsFrom(_, _)
C27_StepsFrom(b, n) ==
    IF n = 0 THEN TRUE
    ELSE LET moved == PickKey(b)
             Rank(k) == CHOOSE i \in 1..4 : SourceOrder[i] = k
         IN /\ moved \in SourceSet
            /\ b[moved] # <<>>
            /\ \A s \in SourceSet :
                  b[s] # <<>> =>
                     /\ toEpoch(Head(b[moved])) >= toEpoch(Head(b[s]))
                     /\ toEpoch(Head(b[moved])) = toEpoch(Head(b[s]))
                           => Rank(moved) <= Rank(s)
            /\ C27_StepsFrom([b EXCEPT ![moved] = Tail(@)], n - 1)

\* C27: every record revealNextBatch moves is the head of a buffer whose head
\* has the greatest event time among the heads of the non-empty buffers, and
\* of the buffers whose heads share that time the first in the order inbound,
\* outbound, campaign, CDR: the choice depends on the buffers alone.
C27_PickNewestHeadInSourceOrder ==
    [][\A t \in TaskIds :
          (tasks'[t] # tasks[t] /\ tasks'[t].revealed) =>
              /\ buffers' = AfterPicks(tasks'[t].from, tasks'[t].popped)
              /\ C27_StepsFrom(tasks'[t].from, tasks'[t].popped)]_vars

\* A batch moved the inbound head although the CDR head had the same event
\* time.
C27_Witness ==
    \E t \in TaskIds :
        /\ tasks[t].revealed /\ tasks[t].popped >= 1
        /\ tasks[t].from["in"] # <<>> /\ tasks[t].from["cdr"] # <<>>
        /\ toEpoch(Head(tasks[t].from["in"])) = toEpoch(Head(tasks[t].from["cdr"]))
        /\ PickKey(tasks[t].from) = "in"

\* C28: every buffer is sorted by non-increasing event time when
\* revealNextBatch reads it, after the initial load as after a cursor or a
\* fallback refill.
C28_BuffersSortedWhenMerged ==
    \A t \in TaskIds :
        tasks[t].revealed =>
            \A s \in SourceSet :
                \A i \in 1..(Len(tasks[t].from[s]) - 1) :
                    toEpoch(tasks[t].from[s][i]) >= toEpoch(tasks[t].from[s][i + 1])

\* C29: in a cursor round a request goes to a source exactly when its cursor
\* is not null and its buffer holds fewer than PAGE_SIZE records.
C29_FetchOnlyBelowQuota ==
    [][\A t \in TaskIds :
          (/\ tasks'[t].stage = "cursor" /\ tasks'[t].pc = "await"
           /\ ~(tasks[t].stage = "cursor" /\ tasks[t].pc = "await"))
              => \A s \in SourceSet :
                    s \in tasks'[t].pending
                       <=> (nextTokens[s] # "null" /\ Len(buffers[s]) < PAGE_SIZE)]_vars


-----------------------------------------------------------------------------
(* Claims about the cache under concurrent and failing calls *)

\* C31: while a cache entry is unexpired (Date.now() < expires) no step
\* changes its rows or its expiry time, whatever calls run side by side.
C31_FreshEntryUntouched ==
    [][\A k \in FetchReports :
          CacheFresh(reportCache[k], now)
              => /\ reportCache'[k].data = reportCache[k].data
                 /\ reportCache'[k].expires = reportCache[k].expires]_vars

\* C35: what the route handler sends for a call served from the cache
\* carries the continuation cursor the fetch that created the entry returned.
C35_HitCarriesCursor ==
    \A c \in CallIds :
        calls[c].pc = "done" /\ calls[c].result.hit
            => HandlerResponse(calls[c].result).next = calls[c].sawNext

\* C38: a fetchReport call that fails (its third attempt throws, or the
\* report kind is unknown) leaves reportCache as it was; the cache changes
\* only in the step in which a call returns after a miss.
C38_FailedCallLeavesCache ==
    [][/\ (\/ \E c \in CallIds : calls[c].pc = "request" /\ calls'[c].pc = "failed"
           \/ http' # http /\ http'.status = 500)
             => reportCache' = reportCache
       /\ reportCache' # reportCache
             => \E c \in CallIds : /\ calls[c].pc = "request"
                                   /\ calls'[c].pc = "done"
                                   /\ ~calls'[c].result.hit]_vars

\* A call has failed after all its attempts, and another request was refused
\* for its unknown kind, while the cache held the entry an earlier fetch made.
C38_Witness ==
    /\ \E c \in CallIds : calls[c].pc = "failed" /\ calls[c].fails = MAX_RETRIES
    /\ reportCache["queueCalls"] # NoEntry
    /\ reportCache["queueCalls"].data # <<>>


\* C39: the array a call that missed the cache returned is not the array
\* the cache holds: a step that changes such an array leaves the rows later
\* hits for the key are copied from as they were.
C39_MissArrayIsNotCached ==
    [][(\E a \in heap.misses : heap'.arrays[a] # heap.arrays[a])
          => /\ heap'.cached = heap.cached
             /\ heap'.arrays[heap.cached] = heap.arrays[heap.cached]]_vars


-----------------------------------------------------------------------------
(* Claims about the route handler's limit *)

\* C40: the limit the route handler passes to fetchReport as maxRows is a
\* whole number between 1 and 1000, whatever the limit parameter was.
C40_LimitIsIntegerInRange ==
    http.limit # 0
        => /\ http.limit % 10 = 0
           /\ 10 <= http.limit
           /\ http.limit <= 10000


-----------------------------------------------------------------------------
(* Claims about a failed query submission *)

\* C37: after a submission has failed and the page is at rest, the cursors,
\* the buffers and the revealed list are those of the query baseQuery names:
\* every cursor and every record is one the server hands out for that window.
C37_FailedSubmitLeavesOneQuery ==
    (/\ Quiet
     /\ \E t \in TaskIds : tasks[t].kind = "submit" /\ tasks[t].pc = "threw")
        => /\ \A s \in SourceSet :
                 nextTokens[s] # Null
                    => \E r \in QueryResponses(s, baseQuery) : r.next = nextTokens[s]
           /\ \A s \in SourceSet : \A i \in 1..Len(buffers[s]) :
                 \E r \in QueryResponses(s, baseQuery) : \E j \in 1..Len(r.rows) :
                    r.rows[j].call_id = buffers[s][i].CallID
           /\ \A i \in 1..Len(lastRecords) :
                 \E s \in SourceSet : \E r \in QueryResponses(s, baseQuery) :
                    \E j \in 1..Len(r.rows) :
                       r.rows[j].call_id = lastRecords[i].CallID


-----------------------------------------------------------------------------
(* Claims about one fetch round *)

\* The session run with the answers of every round applied in the order of
\* SourceOrder: the revealed list, the buffers and the cursors after the
\* n-th handler of a session on window w.
RECURSIVE C32_InOrder(_, _)
C32_InOrder(n, w) ==
    IF n = 0 THEN [last |-> <<>>, bufs |-> NoRows, toks |-> NoTokens]
    ELSE IF n = 1
    THEN LET r == revealNextBatch(<<>>,
                    [s \in SourceSet |->
                        MapNormalize(RoundAnswer(s, "first", w, NoEnd).rows, s)])
         IN [last |-> r.last, bufs |-> r.bufs,
             toks |-> [s \in SourceSet |-> RoundAnswer(s, "first", w, NoEnd).next]]
    ELSE LET e == C32_InOrder(n - 1, w)
             toks1 == [s \in SourceSet |->
                         IF e.toks[s] # Null
                         THEN RoundAnswer(s, "cursor", w, NoEnd).next ELSE Null]
             bufs1 == [s \in SourceSet |->
                         IF e.toks[s] # Null
                         THEN SortDesc(e.bufs[s] \o
                                MapNormalize(RoundAnswer(s, "cursor", w, NoEnd).rows, s))
                         ELSE e.bufs[s]]
             oldest == Oldest(e.last)
             bufs2 == IF NoMoreTokens(toks1) /\ OldestTruthy(oldest)
                      THEN PushFallback(bufs1,
                             [s \in SourceSet |->
                                RoundAnswer(s, "fallback", w, FallbackEnd(oldest)).rows],
                             1)
                      ELSE bufs1
             r == revealNextBatch(e.last, bufs2)
         IN [last |-> r.last, bufs |-> r.bufs, toks |-> toks1]

\* C32: the requests of a round are all issued in the step that starts the
\* round; revealNextBatch runs only in a step after which no request of the
\* round is outstanding; and when the page has come to rest the revealed
\* list, the buffers and the cursors are what the answers applied in the
\* order of SourceOrder give, whatever the order in which they arrived.
C32_RoundIndependentOfArrivalOrder ==
    [][/\ \A t \in TaskIds :
             (/\ tasks'[t].pc = "await"
              /\ tasks[t].pc # "await" \/ tasks'[t].stage # tasks[t].stage)
                 => tasks'[t].pending =
                       IF tasks'[t].stage = "cursor"
                       THEN {s \in SourceSet : nextTokens[s] # Null}
                       ELSE SourceSet
       /\ \A t \in TaskIds :
             (tasks'[t].revealed /\ ~tasks[t].revealed) \/ lastRecords' # lastRecords
                 => tasks'[t].pending = {}
       /\ Quiet'
             => [last |-> lastRecords', bufs |-> buffers', toks |-> nextTokens']
                   = C32_InOrder(nHandlers', baseQuery')]_vars

\* A session has run a first round of four requests, a cursor round of two
\* and a fallback round of four, and stands at rest with the records of all
\* three revealed.
C32_Witness ==
    /\ Quiet
    /\ nHandlers = 3
    /\ Len(lastRecords) > 2 * PAGE_SIZE
    /\ \E t \in TaskIds : tasks[t].stage = "fallback" /\ tasks[t].revealed
    /\ \E i \in 1..Len(lastRecords) : lastRecords[i].CallID = 5

\* C33 as stated: the .then handler of the cursor request for source s
\* leaves buffer s as its former records followed by the rows of the
\* answer, sets cursor s to the answer's next, and changes no other buffer,
\* no other cursor and not the revealed list.  (When the answer is the last
\* of its round the continuation of loadNextChunks runs in the same step;
\* the buffers the handler left are then those revealNextBatch found.)
C33_ChunkAppendedOthersUntouched ==
    [][\A t \in TaskIds, s \in SourceSet :
          (/\ tasks[t].stage = "cursor" /\ s \in tasks[t].pending
           /\ tasks'[t].born = tasks[t].born
           /\ tasks'[t].last.n = tasks[t].last.n + 1
           /\ tasks'[t].last.source = s)
             => LET resp == tasks'[t].last
                    merged == tasks'[t].revealed /\ ~tasks[t].revealed
                    after == IF merged THEN tasks'[t].from ELSE buffers'
                IN /\ after[s] = buffers[s] \o MapNormalize(resp.rows, s)
                   /\ nextTokens'[s] = resp.next
                   /\ \A u \in SourceSet \ {s} :
                         after[u] = buffers[u] /\ nextTokens'[u] = nextTokens[u]
                   /\ ~merged => lastRecords' = lastRecords]_vars

\* C33 amended: as above, but buffer s holds its former records and the
\* rows of the answer put in order of descending event time.
C33_ChunkMergedOthersUntouched ==
    [][\A t \in TaskIds, s \in SourceSet :
          (/\ tasks[t].stage = "cursor" /\ s \in tasks[t].pending
           /\ tasks'[t].born = tasks[t].born
           /\ tasks'[t].last.n = tasks[t].last.n + 1
           /\ tasks'[t].last.source = s)
             => LET resp == tasks'[t].last
                    merged == tasks'[t].revealed /\ ~tasks[t].revealed
                    after == IF merged THEN tasks'[t].from ELSE buffers'
                IN /\ after[s] = SortDesc(buffers[s] \o MapNormalize(resp.rows, s))
                   /\ nextTokens'[s] = resp.next
                   /\ \A u \in SourceSet \ {s} :
                         after[u] = buffers[u] /\ nextTokens'[u] = nextTokens[u]
                   /\ ~merged => lastRecords' = lastRecords]_vars

\* The answer for the inbound source has been applied while the answer for
\* the outbound source was still outstanding: its row, younger than the one
\* buffered, stands first in the buffer and the cursor is null.
C33_Witness ==
    \E t \in TaskIds :
        /\ tasks[t].stage = "cursor" /\ tasks[t].pc = "await"
        /\ tasks[t].pending = {"out"}
        /\ tasks[t].last.source = "in"
        /\ Len(buffers["in"]) = 2
        /\ buffers["in"][1].CallID = 3
        /\ nextTokens["in"] = Null
        /\ nextTokens["out"] = "o1"


-----------------------------------------------------------------------------
(* Claims about a whole session *)

\* C34: when the session is exhausted (the page at rest, Next not offered,
\* buffers empty, cursors null), every non-empty call identifier upstream
\* holds in the query window stands exactly once in the revealed list.
C34_EveryRecordRevealedOnce ==
    (/\ Quiet /\ nav.shown /\ ~nav.next
     /\ \A s \in SourceSet : buffers[s] = <<>> /\ nextTokens[s] = Null)
        => \A id \in (UNION {{UpstreamPages("queueCalls")[p].rows[j].call_id :
                                   j \in 1..Len(UpstreamPages("queueCalls")[p].rows)} :
                               p \in 1..Len(UpstreamPages("queueCalls"))}
                       \cup {4}) \ {EmptyId} :
              Cardinality({i \in 1..Len(lastRecords) : lastRecords[i].CallID = id}) = 1

\* C36: the consumer who keeps asking for the next batch reaches the
\* exhausted state: the page at rest, Next not offered, all buffers empty,
\* all cursors null.
C36_EventuallyExhausted ==
    <>(/\ Quiet /\ nav.shown /\ ~nav.next
       /\ \A s \in SourceSet : buffers[s] = <<>> /\ nextTokens[s] = Null)

\* The session is exhausted after a cursor round and a fallback round.
C36_Witness ==
    /\ Quiet /\ nav.shown /\ ~nav.next
    /\ \A s \in SourceSet : buffers[s] = <<>> /\ nextTokens[s] = Null
    /\ nHandlers >= 3
    /\ \E t \in TaskIds : tasks[t].stage = "fallback" /\ tasks[t].revealed

====
